---- MODULE Spec2Model ----
(***************************************************************************)
(* A model of the aesdchar command log (src/aesd-char-driver) and of the   *)
(* aesdsocket server that uses it (src/server/aesdsocket.c, built with     *)
(* USE_AESD_CHAR_DEVICE=1; SpecTimer is the build with                     *)
(* USE_AESD_CHAR_DEVICE=0, where the log is a file and a timer appends     *)
(* timestamps to it).                                                      *)
(*                                                                         *)
(* Bytes are integers (NL is '\n', 0 is NUL); a byte string is a sequence  *)
(* of bytes.  A C pointer to a buffer is modelled by the buffer's content; *)
(* the NULL pointer is the empty sequence.                                 *)
(***************************************************************************)
EXTENDS Integers, Sequences, FiniteSets, TLC

VARIABLES
  buffer,     \* struct aesd_circular_buffer under test (SpecRing)
  added,      \* history: every entry handed to add_entry, oldest first
  find_rtn,   \* the last lookup: its argument and what it returned
  dev,        \* struct aesd_dev aesd_device
  filp,       \* the open file of SpecDriver: its f_pos
  sys,        \* the last system call on the device and what it returned
  rd,         \* history: the bytes read since the last reposition of filp
  nwrites,    \* history: how many writes were made, and how many of each kind
  conn,       \* aesdsocket: the state of each client_thread_func
  hist,       \* history of each connection: bytes received, echoed, appended
  crashed,    \* the aesdsocket process was killed by a fault
  globals,    \* aesdsocket: exit_status, socket_connected, mutex_active, ...
  main,       \* aesdsocket: where main is, and its list of threads
  thread_mutex,   \* aesdsocket: pthread_mutex_t thread_mutex
  threads,    \* aesdsocket: each client_thread_func as a thread among others
  timer_thread,   \* aesdsocket: the thread that runs timer_thread_handler
  mx_lock,    \* aesdchar: dev->mx_lock, the task that holds it or 0
  task,       \* aesdchar: each task inside a file operation, step by step
  wlog        \* history: the bytes written since the last record, by writer

ring_vars == <<buffer, added, find_rtn>>

proc_vars == <<filp, sys, rd, nwrites>>

drv_vars == <<dev, filp, sys, rd, nwrites>>

srv_vars == <<conn, hist, crashed>>

thr_vars == <<globals, main, thread_mutex, threads, timer_thread>>

task_vars == <<mx_lock, task, wlog>>

data_vars == <<buffer, added, find_rtn, dev, filp, sys, rd, nwrites, conn, hist, crashed>>

vars == <<buffer, added, find_rtn, dev, filp, sys, rd, nwrites, conn, hist, crashed,
          globals, main, thread_mutex, threads, timer_thread, mx_lock, task, wlog>>

----------------------------------------------------------------------------
(* Constants of the program *)

AESDCHAR_MAX_WRITE_OPERATIONS_SUPPORTED == 10

NL == 10

NULL == <<>>

EINVAL == 22

ENOMEM == 12

EFAULT == 14

ERESTARTSYS == 512

SEEK_SET == 0

SEEK_CUR == 1

SEEK_END == 2

READ_SIZE == 1024

AESD_IOCTL_PREFIX_LEN == 19

(* Bounds of the model *)

MaxAdds == 12

MaxWrites == 4

MaxPartial == 2

StdioBufSize == 4096

MaxRecv == 3

MaxRecvEach == 2

MaxSeekOff == 3

MaxSeekRecv == 2

MaxFillRecv == 3

MaxPending == 2

MaxExpire == 1

MaxCalls == 3

----------------------------------------------------------------------------
(* Helpers on byte strings *)

Min(a, b) == IF a < b THEN a ELSE b

Max(a, b) == IF a > b THEN a ELSE b

RECURSIVE Concat(_)
Concat(ss) == IF ss = <<>> THEN <<>> ELSE Head(ss) \o Concat(Tail(ss))

RECURSIVE SumLen(_)
SumLen(ss) == IF ss = <<>> THEN 0 ELSE Len(Head(ss)) + SumLen(Tail(ss))

LastN(s, n) == SubSeq(s, Len(s) - Min(n, Len(s)) + 1, Len(s))

----------------------------------------------------------------------------
(* aesd-circular-buffer.c *)

Slots == 0 .. (AESDCHAR_MAX_WRITE_OPERATIONS_SUPPORTED - 1)

EmptyEntry == [buffptr |-> NULL, size |-> 0]

MkEntry(bytes) == [buffptr |-> bytes, size |-> Len(bytes)]

end_entry(b, offs_idx) == offs_idx = AESDCHAR_MAX_WRITE_OPERATIONS_SUPPORTED - 1

aesd_circular_buffer_init ==
  [entry |-> [i \in Slots |-> EmptyEntry], in_offs |-> 0, out_offs |-> 0, full |-> FALSE]

NotFound == [found |-> FALSE, idx |-> 0, off |-> 0]

(* Mutants of the add: the full flag is never raised; the read index does  *)
(* not follow the write index of a full ring; the entry lands one slot on; *)
(* an add to a full ring lowers the full flag again.                       *)
add_entry_never_full(b, add_entry) ==
  LET in_new == IF end_entry(b, b.in_offs) THEN 0 ELSE b.in_offs + 1
  IN [b EXCEPT !.entry[b.in_offs] = add_entry, !.in_offs = in_new]

add_entry_out_offs_stays(b, add_entry) ==
  LET in_new == IF end_entry(b, b.in_offs) THEN 0 ELSE b.in_offs + 1
      b1 == [b EXCEPT !.entry[b.in_offs] = add_entry, !.in_offs = in_new]
  IN IF b.full THEN b1 ELSE [b1 EXCEPT !.full = (in_new = b.out_offs)]

add_entry_wrong_slot(b, add_entry) ==
  LET in_new == IF end_entry(b, b.in_offs) THEN 0 ELSE b.in_offs + 1
      b1 == [b EXCEPT !.entry[in_new] = add_entry, !.in_offs = in_new]
  IN IF b.full
       THEN [b1 EXCEPT !.out_offs = in_new]
       ELSE [b1 EXCEPT !.full = (in_new = b.out_offs)]

add_entry_clears_full(b, add_entry) ==
  LET in_new == IF end_entry(b, b.in_offs) THEN 0 ELSE b.in_offs + 1
      b1 == [b EXCEPT !.entry[b.in_offs] = add_entry, !.in_offs = in_new]
  IN IF b.full
       THEN [b1 EXCEPT !.out_offs = in_new, !.full = (in_new = b.out_offs)]
       ELSE [b1 EXCEPT !.full = (in_new = b.out_offs)]

aesd_circular_buffer_add_entry(b, add_entry) ==
  LET in_new == IF end_entry(b, b.in_offs) THEN 0 ELSE b.in_offs + 1
      b1 == [b EXCEPT !.entry[b.in_offs] = add_entry, !.in_offs = in_new]
  IN IF b.full
       THEN [b1 EXCEPT !.out_offs = in_new]
       ELSE [b1 EXCEPT !.full = (in_new = b.out_offs)]


(* Mutant of the lookup: an entry is left one byte late. *)
RECURSIVE find_walk_late(_, _, _, _, _)
find_walk_late(b, char_offset, cur_offset, cur_entry_offset, entry_idx) ==
  LET p_entry == b.entry[entry_idx] IN
  IF cur_offset < char_offset
    THEN IF p_entry.size = 0 \/ p_entry.buffptr = NULL
           THEN NotFound
           ELSE IF cur_entry_offset = p_entry.size
                  THEN LET next_idx == IF end_entry(b, entry_idx) THEN 0 ELSE entry_idx + 1
                       IN IF next_idx = b.out_offs
                            THEN NotFound
                            ELSE find_walk_late(b, char_offset, cur_offset + 1, 0, next_idx)
                  ELSE find_walk_late(b, char_offset, cur_offset + 1, cur_entry_offset + 1, entry_idx)
    ELSE IF cur_offset = char_offset /\ p_entry.size # 0 /\ p_entry.buffptr # NULL
           THEN [found |-> TRUE, idx |-> entry_idx, off |-> cur_entry_offset]
           ELSE NotFound

(* The while loop of the lookup, one iteration per call. *)
RECURSIVE find_walk(_, _, _, _, _)
find_walk(b, char_offset, cur_offset, cur_entry_offset, entry_idx) ==
  LET p_entry == b.entry[entry_idx] IN
  IF cur_offset < char_offset
    THEN IF p_entry.size = 0 \/ p_entry.buffptr = NULL
           THEN NotFound
           ELSE IF cur_entry_offset = p_entry.size - 1
                  THEN LET next_idx == IF end_entry(b, entry_idx) THEN 0 ELSE entry_idx + 1
                       IN IF next_idx = b.out_offs
                            THEN NotFound
                            ELSE find_walk(b, char_offset, cur_offset + 1, 0, next_idx)
                  ELSE find_walk(b, char_offset, cur_offset + 1, cur_entry_offset + 1, entry_idx)
    ELSE IF cur_offset = char_offset /\ p_entry.size # 0 /\ p_entry.buffptr # NULL
           THEN [found |-> TRUE, idx |-> entry_idx, off |-> cur_entry_offset]
           ELSE NotFound

(* Mutant of the lookup: the walk starts at slot 0, not at out_offs. *)
find_entry_from_slot_zero(b, char_offset) ==
  find_walk(b, char_offset, 0, 0, 0)

aesd_circular_buffer_find_entry_offset_for_fpos(b, char_offset) ==
  find_walk(b, char_offset, 0, 0, b.out_offs)

----------------------------------------------------------------------------
(* aesd-char-driver/main.c.  Each file operation is a function of the      *)
(* device and of its arguments that gives the device, the file position    *)
(* and the value returned; user buffers are valid (copy_to_user and        *)
(* copy_from_user leave no byte out) and the allocations succeed.          *)

aesd_init_module ==
  [aesd_cb |-> aesd_circular_buffer_init, buf_size |-> 0, tmp_buf |-> NULL, tmp_size |-> 0]

memchr(s, c, n) == \E i \in 1 .. Min(n, Len(s)) : s[i] = c

(* Mutant of the read: the file position advances by the bytes asked for. *)
aesd_read_advances_by_count(d, f_pos, count) ==
  LET start_entry == aesd_circular_buffer_find_entry_offset_for_fpos(d.aesd_cb, f_pos)
  IN IF ~start_entry.found
       THEN [retval |-> 0, data |-> <<>>, f_pos |-> f_pos]
       ELSE LET e == d.aesd_cb.entry[start_entry.idx]
                read_length == Min(e.size - start_entry.off, count)
            IN [retval |-> read_length,
                data |-> SubSeq(e.buffptr, start_entry.off + 1, start_entry.off + read_length),
                f_pos |-> f_pos + count]

aesd_read(d, f_pos, count) ==
  LET start_entry == aesd_circular_buffer_find_entry_offset_for_fpos(d.aesd_cb, f_pos)
  IN IF ~start_entry.found
       THEN [retval |-> 0, data |-> <<>>, f_pos |-> f_pos]
       ELSE LET e == d.aesd_cb.entry[start_entry.idx]
                read_length == Min(e.size - start_entry.off, count)
            IN [retval |-> read_length,
                data |-> SubSeq(e.buffptr, start_entry.off + 1, start_entry.off + read_length),
                f_pos |-> f_pos + read_length]

aesd_write(d, buf) ==
  LET count == Len(buf)
      retval == count
      tmp_buf == IF d.tmp_size > 0 THEN d.tmp_buf \o buf ELSE buf
      tmp_size == IF d.tmp_size > 0 THEN d.tmp_size + retval ELSE retval
      \* the entry about to be overwritten is freed first
      cb == IF d.aesd_cb.full
              THEN [d.aesd_cb EXCEPT !.entry[d.aesd_cb.in_offs] = EmptyEntry]
              ELSE d.aesd_cb
      new_entry == [buffptr |-> tmp_buf, size |-> tmp_size]
  IN [retval |-> retval,
      dev |-> IF memchr(tmp_buf, NL, tmp_size)
                THEN [aesd_cb |-> aesd_circular_buffer_add_entry(cb, new_entry),
                      buf_size |-> d.buf_size + retval,
                      tmp_buf |-> NULL,
                      tmp_size |-> 0]
                ELSE [aesd_cb |-> d.aesd_cb,
                      buf_size |-> d.buf_size + retval,
                      tmp_buf |-> tmp_buf,
                      tmp_size |-> tmp_size]]

(* Mutant of the seek: SEEK_SET lands one byte past the offset asked for. *)
aesd_llseek_set_off_by_one(d, f_pos, off, whence) ==
  LET known == whence \in {SEEK_SET, SEEK_CUR, SEEK_END}
      newpos0 == CASE whence = SEEK_SET -> off + 1
                   [] whence = SEEK_CUR -> f_pos + off
                   [] whence = SEEK_END -> d.buf_size + off
                   [] OTHER -> -EINVAL
      negative == newpos0 < 0
      newpos1 == IF negative THEN -EINVAL ELSE newpos0
      toobig == newpos1 < 0 \/ newpos1 > d.buf_size
      newpos == IF toobig THEN -EINVAL ELSE newpos1
      errors == ~known \/ negative \/ toobig
  IN [retval |-> newpos, f_pos |-> IF errors THEN f_pos ELSE newpos]

aesd_llseek(d, f_pos, off, whence) ==
  LET known == whence \in {SEEK_SET, SEEK_CUR, SEEK_END}
      newpos0 == CASE whence = SEEK_SET -> off
                   [] whence = SEEK_CUR -> f_pos + off
                   [] whence = SEEK_END -> d.buf_size + off
                   [] OTHER -> -EINVAL
      negative == newpos0 < 0
      newpos1 == IF negative THEN -EINVAL ELSE newpos0
      \* loff_t against the unsigned buf_size: a negative value compares as huge
      toobig == newpos1 < 0 \/ newpos1 > d.buf_size
      newpos == IF toobig THEN -EINVAL ELSE newpos1
      errors == ~known \/ negative \/ toobig
  IN [retval |-> newpos, f_pos |-> IF errors THEN f_pos ELSE newpos]

(* The entry the ioctl reads at index i; entry[10] lies past the array, and *)
(* oob stands for whatever the memory after it holds.                       *)
ioctl_entry(d, i, oob) == IF i \in Slots THEN d.aesd_cb.entry[i] ELSE oob

entry_present(e) == e.buffptr # NULL /\ e.size > 0

(* The for loop of the ioctl from index on: the offset summed and whether  *)
(* the loop ended at a missing entry.                                      *)
RECURSIVE ioctl_loop(_, _, _, _)
ioctl_loop(d, write_cmd, index, loc_off) ==
  IF index < write_cmd
    THEN IF entry_present(d.aesd_cb.entry[index])
           THEN ioctl_loop(d, write_cmd, index + 1, loc_off + d.aesd_cb.entry[index].size)
           ELSE [loc_off |-> loc_off, retval |-> -EINVAL]
    ELSE [loc_off |-> loc_off, retval |-> 0]

aesd_ioctl(d, f_pos, cmd, seek_cmd, oob) ==
  IF cmd # "AESDCHAR_IOCSEEKTO"
    THEN [retval |-> -EINVAL, f_pos |-> f_pos]
  ELSE IF seek_cmd.write_cmd > AESDCHAR_MAX_WRITE_OPERATIONS_SUPPORTED
    THEN [retval |-> -EINVAL, f_pos |-> f_pos]
  ELSE LET l == ioctl_loop(d, seek_cmd.write_cmd, 0, 0)
           entry == ioctl_entry(d, seek_cmd.write_cmd, oob)
       IN IF entry_present(entry)
            THEN IF seek_cmd.write_cmd_offset > entry.size
                   THEN [retval |-> -EINVAL, f_pos |-> f_pos]
                   ELSE [retval |-> l.retval, f_pos |-> l.loc_off + seek_cmd.write_cmd_offset]
            ELSE [retval |-> -EINVAL, f_pos |-> f_pos]

(* The indexes of aesd_cb.entry that the ioctl reads: the for loop up to   *)
(* its break, then entry[write_cmd].                                       *)
ioctl_reads(d, seek_cmd) ==
  IF seek_cmd.write_cmd > AESDCHAR_MAX_WRITE_OPERATIONS_SUPPORTED
    THEN {}
    ELSE {i \in 0 .. (seek_cmd.write_cmd - 1) :
            \A j \in 0 .. (i - 1) : entry_present(d.aesd_cb.entry[j])}
         \cup {seek_cmd.write_cmd}

----------------------------------------------------------------------------
(* The ring as the specification describes it: the present records in      *)
(* logical (oldest first) order.                                           *)

NumPresent(b) ==
  IF b.full THEN AESDCHAR_MAX_WRITE_OPERATIONS_SUPPORTED
  ELSE (b.in_offs - b.out_offs) % AESDCHAR_MAX_WRITE_OPERATIONS_SUPPORTED

LogicalSlots(b) ==
  [k \in 1 .. NumPresent(b) |->
      (b.out_offs + k - 1) % AESDCHAR_MAX_WRITE_OPERATIONS_SUPPORTED]

PresentRecords(b) ==
  [k \in 1 .. NumPresent(b) |-> b.entry[LogicalSlots(b)[k]].buffptr]

LogicalLog(b) == Concat(PresentRecords(b))

----------------------------------------------------------------------------
(* The device when a process opens it: as module initialisation left it,  *)
(* or after earlier processes wrote records to it (the device outlives the *)
(* processes that use it).  The k-th write to the device is a whole record *)
(* (a byte that names k and a newline) or a part of one (the byte alone).  *)

WriteChunk(k, kind) == IF kind = "record" THEN <<96 + k, NL>> ELSE <<96 + k>>

RECURSIVE DevAfter(_)
DevAfter(n) ==
  IF n = 0 THEN aesd_init_module
  ELSE aesd_write(DevAfter(n - 1), WriteChunk(n, "record")).dev

Prefill == {0, AESDCHAR_MAX_WRITE_OPERATIONS_SUPPORTED - 1}

NoRead == [on |-> FALSE, start |-> 0, acc |-> <<>>, eof |-> FALSE]

FromStart(pos) == [on |-> TRUE, start |-> pos, acc |-> <<>>, eof |-> FALSE]

(* The tasks that use the device, each with its own open file.  A task's  *)
(* ref is the entry its read found: the slot, the byte in it, the length   *)
(* to copy, and whether a write has freed that entry's memory since.       *)
TaskIds == {1, 2}

NoRef == [idx |-> 0, off |-> 0, len |-> 0, freed |-> FALSE]

IdleTask ==
  [pc |-> "idle", op |-> "none", arg |-> <<>>, f_pos |-> 0, retval |-> 0,
   ref |-> NoRef, uaf |-> FALSE]

TasksIdle ==
  /\ mx_lock = 0
  /\ task = [p \in TaskIds |-> IdleTask]
  /\ wlog = [calls |-> 0, acc |-> <<>>, promoted |-> <<>>]

DrvOpen(n) ==
  /\ dev = DevAfter(n)
  /\ filp = [f_pos |-> 0]
  /\ sys = [op |-> "open", retval |-> 0, completed |-> FALSE]
  /\ rd = FromStart(0)
  /\ nwrites = [total |-> n, made |-> 0, partial |-> 0]
  /\ TasksIdle

DrvInit == \E n \in Prefill : DrvOpen(n)

----------------------------------------------------------------------------
(* server/aesdsocket.c: client_thread_func, with the C library calls it    *)
(* makes.  A cell of rx_buffer holds a byte b and, as history, the index s *)
(* of that byte in the stream the client sent (0 for a byte that was not   *)
(* received).  rx_buffer is kept without its trailing zero cells: the      *)
(* buffer is zeroed when allocated and when grown.                         *)

ConnIds == {1, 2}

SeekPrefix == <<65, 69, 83, 68, 67, 72, 65, 82, 95, 73, 79, 67, 83, 69, 69, 75, 84, 79, 58>>

COMMA == 44

Zero == [b |-> 0, s |-> 0]

Bytes(cells) == [i \in 1 .. Len(cells) |-> cells[i].b]

(* The cell at the 0-based index i. *)
At(buf, i) == IF i < Len(buf) THEN buf[i + 1] ELSE Zero

(* buf without the zero cells at its end. *)
Trim(buf) ==
  LET used == {i \in 1 .. Len(buf) : buf[i] # Zero}
  IN IF used = {} THEN <<>>
     ELSE SubSeq(buf, 1, CHOOSE i \in used : \A j \in used : j <= i)

(* buf with cells stored from the 0-based index at on. *)
Poke(buf, at, cells) ==
  Trim([i \in 1 .. Max(Len(buf), at + Len(cells)) |->
          IF i - 1 >= at /\ i - 1 < at + Len(cells) THEN cells[i - at] ELSE At(buf, i - 1)])

memset0(buf, n) == Poke(buf, 0, [i \in 1 .. n |-> Zero])

(* memcpy(rx_buffer, p, n) with p inside rx_buffer: the regions overlap and *)
(* the copy runs upwards, so each byte is read before it is overwritten.    *)
memcpy_down(buf, p, n) == Poke(buf, 0, [i \in 1 .. n |-> At(buf, p + i - 1)])

(* strchr(rx_buffer + i, c): the index of the first c before any NUL, or -1 *)
strchr(buf, c, i) ==
  LET stops == {j \in i .. Max(i, Len(buf)) : At(buf, j).b \in {c, 0}}
      first == CHOOSE j \in stops : \A k \in stops : j <= k
  IN IF At(buf, first).b = c THEN first ELSE -1

(* strncmp(p, "AESDCHAR_IOCSEEKTO:", AESD_IOCTL_PREFIX_LEN) == 0 *)
strncmp_prefix(buf) ==
  \A i \in 0 .. (AESD_IOCTL_PREFIX_LEN - 1) : At(buf, i).b = SeekPrefix[i + 1]

RECURSIVE skip_delim(_, _)
skip_delim(buf, i) == IF At(buf, i).b = COMMA THEN skip_delim(buf, i + 1) ELSE i

RECURSIVE token_end(_, _)
token_end(buf, i) == IF At(buf, i).b \in {COMMA, 0} THEN i ELSE token_end(buf, i + 1)

(* strtok(., ",") scanning from the index from: the token, the buffer with *)
(* the delimiter that ended the token overwritten by NUL, and where the    *)
(* next call resumes.                                                      *)
strtok(buf, from) ==
  LET start == skip_delim(buf, from)
      stop == token_end(buf, start)
      cut == At(buf, stop).b = COMMA
  IN IF At(buf, start).b = 0
       THEN [found |-> FALSE, token |-> <<>>, buf |-> buf, save |-> start]
       ELSE [found |-> TRUE,
             token |-> Bytes(SubSeq(buf, start + 1, stop)),
             buf |-> IF cut THEN Poke(buf, stop, <<Zero>>) ELSE buf,
             save |-> IF cut THEN stop + 1 ELSE stop]

IsSpace(b) == b \in {9, 10, 11, 12, 13, 32}

RECURSIVE skip_space(_, _)
skip_space(str, i) == IF i <= Len(str) /\ IsSpace(str[i]) THEN skip_space(str, i + 1) ELSE i

RECURSIVE digits(_, _, _)
digits(str, i, acc) ==
  IF i <= Len(str) /\ str[i] \in 48 .. 57
    THEN digits(str, i + 1, acc * 10 + (str[i] - 48))
    ELSE acc

(* (uint32_t)strtoul(token, NULL, 10), defined here for the tokens the     *)
(* model feeds it: no minus sign and a value below 2^31.                   *)
strtoul(str) ==
  LET i == skip_space(str, 1)
      minus == i <= Len(str) /\ str[i] = 45
      j == IF i <= Len(str) /\ str[i] = 43 THEN i + 1 ELSE i
  IN CASE ~minus -> digits(str, j, 0)

NoConn ==
  [pc |-> "none", rx_buffer |-> <<>>, rx_size |-> 0, total_bytes |-> 0,
   client_errors |-> 0, f_pos |-> 0, feof |-> FALSE]

NoHist ==
  [stream |-> <<>>, nrecv |-> 0, echo |-> <<>>, echo_start |-> 0, after |-> "none",
   appended |-> <<>>, seeked |-> FALSE, snaps |-> {},
   ioctl |-> [args |-> <<>>, called |-> FALSE, retval |-> 0, from |-> 0, to |-> 0]]

ConnIdle ==
  /\ conn = [c \in ConnIds |-> NoConn]
  /\ hist = [c \in ConnIds |-> NoHist]
  /\ crashed = FALSE

(* Who holds thread_mutex. *)
Nobody == [kind |-> "none", id |-> 0]

Worker(c) == [kind |-> "worker", id |-> c]

Timer == [kind |-> "timer", id |-> 0]

NoThread ==
  [pc |-> "none", client_errors |-> 0, pending |-> 0, full |-> FALSE,
   client_connected |-> FALSE, thread_complete |-> FALSE, main_closed |-> FALSE,
   failed |-> FALSE, closes |-> 0, freed_by |-> "none"]

(* main when it reaches its accept loop: the socket listens, thread_mutex  *)
(* is initialised and, when the log is the file (USE_AESD_CHAR_DEVICE is   *)
(* 0), the timer is armed.  exit_by, closed_by, after_destroy and          *)
(* fd_unowned are history: who set exit_status first, who closed the       *)
(* listening socket, which threads called lock or unlock on the destroyed  *)
(* mutex, and whether an accepted socket was left without a thread_info.   *)
(* In a thread, closes counts the calls of close on its client_fd and      *)
(* freed_by tells which loop of main freed its thread_info.                *)
AtAcceptLoop(use_aesd_char_device) ==
  /\ globals = [exit_status |-> FALSE, socket_connected |-> TRUE, mutex_active |-> TRUE,
                timer_active |-> (use_aesd_char_device = 0), listening |-> "open",
                signals |-> 0, exit_by |-> "none", closed_by |-> "none",
                after_destroy |-> {}, fd_unowned |-> FALSE]
  /\ main = [pc |-> "loop", head |-> <<>>]
  /\ thread_mutex = [state |-> "free", owner |-> Nobody]
  /\ threads = [c \in ConnIds |-> NoThread]
  /\ timer_thread = [pc |-> "idle", expired |-> 0]

SrvIdle == ConnIdle /\ AtAcceptLoop(1)

(* The thread from its start to the first recv: malloc and fopen succeed.  *)
(* fopen(TMP_FILE, "a+") positions the new file at its end (glibc).        *)
Accept(c) ==
  /\ ~crashed
  /\ conn[c].pc = "none"
  /\ conn' = [conn EXCEPT ![c] =
       [pc |-> "recv", rx_buffer |-> <<>>, rx_size |-> READ_SIZE, total_bytes |-> 0,
        client_errors |-> 0,
        f_pos |-> aesd_llseek(dev, 0, 0, SEEK_END).f_pos,
        feof |-> FALSE]]
  /\ UNCHANGED <<dev, hist, crashed>>
  /\ UNCHANGED <<ring_vars, proc_vars>>
  /\ UNCHANGED thr_vars
  /\ UNCHANGED task_vars

(* One pass of the outer loop up to the parse: the buffer grows when it is *)
(* full, recv delivers chunk, and the parse is skipped when the buffer is  *)
(* now full.                                                               *)
Recv(c, chunk, max) ==
  /\ ~crashed
  /\ conn[c].pc = "recv"
  /\ hist[c].nrecv < max
  /\ LET k == conn[c]
         rx_size == IF k.rx_size - k.total_bytes = 0 THEN k.rx_size + READ_SIZE ELSE k.rx_size
         total_bytes == k.total_bytes + Len(chunk)
         n == Len(hist[c].stream)
         cells == [i \in 1 .. Len(chunk) |-> [b |-> chunk[i], s |-> n + i]]
     IN /\ Len(chunk) > 0
        /\ Len(chunk) <= rx_size - k.total_bytes
        /\ conn' = [conn EXCEPT ![c] =
             [k EXCEPT !.rx_size = rx_size,
                       !.total_bytes = total_bytes,
                       !.rx_buffer = Poke(k.rx_buffer, k.total_bytes, cells),
                       !.pc = IF total_bytes < rx_size THEN "parse"
                              ELSE IF k.client_errors > 0 THEN "closed" ELSE "recv"]]
        /\ hist' = [hist EXCEPT ![c].stream = @ \o chunk, ![c].nrecv = @ + 1]
  /\ UNCHANGED <<dev, crashed>>
  /\ UNCHANGED <<ring_vars, proc_vars>>
  /\ UNCHANGED thr_vars
  /\ UNCHANGED task_vars

(* recv returns 0: the client is done sending. *)
PeerClose(c) ==
  /\ ~crashed
  /\ conn[c].pc = "recv"
  /\ conn' = [conn EXCEPT ![c].pc = "closed"]
  /\ UNCHANGED <<dev, hist, crashed>>
  /\ UNCHANGED <<ring_vars, proc_vars>>
  /\ UNCHANGED thr_vars
  /\ UNCHANGED task_vars

(* What the memory after entry[9] may hold when the ioctl reads entry[10]. *)
OobEntries == {EmptyEntry, [buffptr |-> <<0>>, size |-> 1]}

(* Every other connection that is sending an echo sees the log change. *)
Witnessed(h, c, log) ==
  [d \in ConnIds |->
     IF d # c /\ conn[d].pc = "echo" THEN [h[d] EXCEPT !.snaps = @ \cup {log}] ELSE h[d]]

(* The record that starts rx_buffer begins with the prefix: lines 340-369  *)
(* under the mutex, then the memset and memcpy of lines 392-393 with p     *)
(* left AESD_IOCTL_PREFIX_LEN bytes into the buffer and total_bytes as it  *)
(* was.                                                                    *)
SeekCommand(c, packet_len) ==
  LET k == conn[c]
      t1 == strtok(k.rx_buffer, AESD_IOCTL_PREFIX_LEN)
      t2 == IF t1.found THEN strtok(t1.buf, t1.save)
            ELSE [found |-> FALSE, token |-> <<>>, buf |-> t1.buf, save |-> t1.save]
      num_tokens == (IF t1.found THEN 1 ELSE 0) + (IF t2.found THEN 1 ELSE 0)
      errors1 == k.client_errors + (IF t1.found /\ t2.found THEN 0 ELSE 1)
      seek_cmd == [write_cmd |-> strtoul(t1.token), write_cmd_offset |-> strtoul(t2.token)]
      called == errors1 = 0 /\ num_tokens = 2
  IN \E oob \in (IF called /\ seek_cmd.write_cmd \notin Slots THEN OobEntries ELSE {EmptyEntry}) :
       LET io == IF called
                   THEN aesd_ioctl(dev, k.f_pos, "AESDCHAR_IOCSEEKTO", seek_cmd, oob)
                   ELSE [retval |-> 0, f_pos |-> k.f_pos]
           errors2 == errors1 + (IF io.retval # 0 THEN 1 ELSE 0)
           buf == memcpy_down(memset0(t2.buf, packet_len), AESD_IOCTL_PREFIX_LEN, k.total_bytes)
       IN /\ conn' = [conn EXCEPT ![c] =
               [k EXCEPT !.client_errors = errors2, !.f_pos = io.f_pos,
                         !.rx_buffer = buf, !.pc = "echo"]]
          /\ hist' = [hist EXCEPT ![c].seeked = TRUE, ![c].echo = <<>>,
                                  ![c].echo_start = io.f_pos, ![c].after = "seek",
                                  ![c].snaps = {LogicalLog(dev.aesd_cb)},
                                  ![c].ioctl =
                                     [args |-> Bytes(SubSeq(k.rx_buffer,
                                                 AESD_IOCTL_PREFIX_LEN + 1, packet_len)),
                                      called |-> called, retval |-> io.retval,
                                      from |-> k.f_pos, to |-> io.f_pos]]
          /\ UNCHANGED <<dev, crashed>>

(* Any other record: lines 373-381 under the mutex (the bytes go to the    *)
(* stream's buffer and rewind writes them to the device and seeks to 0),   *)
(* then the memset and memcpy of lines 392-393.  A negative total_bytes    *)
(* makes the memcpy run over all of memory.                                *)
WriteCommand(c, packet_len) ==
  LET k == conn[c]
      cells == SubSeq(k.rx_buffer, 1, packet_len + 1)
      total_bytes == k.total_bytes - (packet_len + 1)
      w == aesd_write(dev, Bytes(cells))
      sk == aesd_llseek(w.dev, k.f_pos, 0, SEEK_SET)
      buf == memcpy_down(memset0(k.rx_buffer, packet_len), packet_len + 1, Max(total_bytes, 0))
      log == LogicalLog(w.dev.aesd_cb)
  IN /\ dev' = w.dev
     /\ conn' = [conn EXCEPT ![c] =
          [k EXCEPT !.total_bytes = total_bytes, !.f_pos = sk.f_pos, !.feof = FALSE,
                    !.rx_buffer = buf, !.pc = "echo"]]
     /\ hist' = [Witnessed(hist, c, log) EXCEPT
                   ![c].appended = Append(@, cells), ![c].echo = <<>>,
                   ![c].echo_start = sk.f_pos, ![c].after = "record",
                   ![c].snaps = {log}]
     /\ crashed' = (total_bytes < 0)

(* One pass of the inner loop up to the send loop. *)
Parse(c) ==
  /\ ~crashed
  /\ conn[c].pc = "parse"
  /\ LET p_end == strchr(conn[c].rx_buffer, NL, 0) IN
     IF p_end = -1
       THEN /\ conn' = [conn EXCEPT ![c].pc =
                          IF conn[c].client_errors > 0 THEN "closed" ELSE "recv"]
            /\ UNCHANGED <<dev, hist, crashed>>
       ELSE IF strncmp_prefix(conn[c].rx_buffer)
              THEN SeekCommand(c, p_end)
              ELSE WriteCommand(c, p_end)
  /\ UNCHANGED <<ring_vars, proc_vars>>
  /\ UNCHANGED thr_vars
  /\ UNCHANGED task_vars

(* One fgets that finds the stream's buffer empty: it returns NULL when    *)
(* the end of file was met before (glibc keeps it until rewind) or when    *)
(* read() returns 0; otherwise the bytes read are sent, line by line.      *)
Echo(c) ==
  /\ ~crashed
  /\ conn[c].pc = "echo"
  /\ LET k == conn[c]
         r == aesd_read(dev, k.f_pos, StdioBufSize)
     IN IF k.feof \/ r.retval = 0
          THEN /\ conn' = [conn EXCEPT ![c].feof = TRUE, ![c].pc = "parse"]
               /\ UNCHANGED hist
          ELSE /\ conn' = [conn EXCEPT ![c].f_pos = r.f_pos]
               /\ hist' = [hist EXCEPT ![c].echo = @ \o r.data]
  /\ UNCHANGED <<dev, crashed>>
  /\ UNCHANGED <<ring_vars, proc_vars>>
  /\ UNCHANGED thr_vars
  /\ UNCHANGED task_vars

----------------------------------------------------------------------------
(* server/aesdsocket.c: the threads of the process: main, one thread per   *)
(* client, and the thread that runs timer_thread_handler.  Here the bytes  *)
(* are left out: a recv delivers a number of whole records, and pending    *)
(* counts the whole records in rx_buffer that the inner loop has not taken *)
(* yet.  pthread_create succeeds, and pthread_mutex_lock and               *)
(* pthread_mutex_unlock do not fail on a mutex that exists.                *)

(* main has not returned: the threads of the process run. *)
Running == main.pc # "returned"

(* cleanup(terminate), called by who: the globals after it.  listening is *)
(* what an accept in progress meets: "open", "shutdown" (accept returns    *)
(* -1) or "closed" (the descriptor was closed under an accept that waits,  *)
(* which goes on waiting for a connection).                                *)
cleanup(g, terminate, who) ==
  [g EXCEPT !.socket_connected = FALSE,
            !.listening = IF g.socket_connected /\ @ = "open" THEN "closed" ELSE @,
            !.closed_by = IF g.socket_connected THEN who ELSE @,
            !.timer_active = IF terminate THEN FALSE ELSE @,
            !.mutex_active = IF terminate THEN FALSE ELSE @,
            !.exit_status = TRUE,
            !.exit_by = IF g.exit_status THEN @ ELSE who]

(* pthread_mutex_lock(&thread_mutex) by thread t returns: it waits while   *)
(* the mutex is locked; on a destroyed mutex the call is undefined, and    *)
(* returns leaving the mutex as it is.                                     *)
pthread_mutex_lock(t) ==
  /\ thread_mutex.state # "locked"
  /\ thread_mutex' = IF thread_mutex.state = "free"
                       THEN [state |-> "locked", owner |-> t] ELSE thread_mutex
  /\ globals' = IF thread_mutex.state = "destroyed"
                  THEN [globals EXCEPT !.after_destroy = @ \cup {t}] ELSE globals

(* pthread_mutex_unlock(&thread_mutex) by thread t. *)
pthread_mutex_unlock(t) ==
  /\ thread_mutex' = IF thread_mutex.state = "locked" /\ thread_mutex.owner = t
                       THEN [state |-> "free", owner |-> Nobody] ELSE thread_mutex
  /\ globals' = IF thread_mutex.state = "destroyed"
                  THEN [globals EXCEPT !.after_destroy = @ \cup {t}] ELSE globals

(* Where the thread goes when the inner loop is over or was skipped: the   *)
(* check of client_errors that ends the outer loop.                        *)
AfterInnerLoop(t) == IF t.client_errors > 0 THEN "exit" ELSE "recv"

(* Where the thread goes at the top of the inner loop: strchr finds a      *)
(* newline when a whole record is in rx_buffer.                            *)
InnerLoop(t) == IF t.pending > 0 THEN "lock" ELSE AfterInnerLoop(t)

(* malloc and fopen succeed: the thread reaches its first recv. *)
ThreadStart(c) ==
  /\ Running
  /\ threads[c].pc = "start"
  /\ threads' = [threads EXCEPT ![c].pc = "recv"]
  /\ UNCHANGED <<globals, main, thread_mutex, timer_thread>>
  /\ UNCHANGED data_vars
  /\ UNCHANGED task_vars

(* malloc or fopen fails: the thread closes its socket, calls              *)
(* cleanup(false) and exits.                                               *)
StartFails(c) ==
  /\ Running
  /\ threads[c].pc = "start"
  /\ threads' = [threads EXCEPT ![c].pc = "exited", ![c].client_connected = FALSE,
                                ![c].thread_complete = TRUE, ![c].client_errors = @ + 1,
                                ![c].failed = TRUE, ![c].closes = @ + 1]
  /\ globals' = cleanup(globals, FALSE, "worker")
  /\ UNCHANGED <<main, thread_mutex, timer_thread>>
  /\ UNCHANGED data_vars
  /\ UNCHANGED task_vars

(* rx_buffer is full and realloc fails. *)
ReallocFails(c) ==
  /\ Running
  /\ threads[c].pc = "recv"
  /\ threads[c].full
  /\ threads' = [threads EXCEPT ![c].client_errors = @ + 1, ![c].failed = TRUE,
                                ![c].pc = "exit"]
  /\ UNCHANGED <<globals, main, thread_mutex, timer_thread>>
  /\ UNCHANGED data_vars
  /\ UNCHANGED task_vars

(* The top of the outer loop, up to the call of recv: a full rx_buffer is  *)
(* grown.  When main has closed the socket the call returns -1 at once,    *)
(* which is added to total_bytes, and the inner loop runs on what          *)
(* rx_buffer holds; otherwise the thread waits in recv.                    *)
RecvCall(c) ==
  /\ Running
  /\ threads[c].pc = "recv"
  /\ threads' = [threads EXCEPT ![c] =
       IF threads[c].main_closed
         THEN [@ EXCEPT !.failed = TRUE, !.full = FALSE, !.pc = InnerLoop(threads[c])]
         ELSE [@ EXCEPT !.full = FALSE, !.pc = "in_recv"]]
  /\ UNCHANGED <<globals, main, thread_mutex, timer_thread>>
  /\ UNCHANGED data_vars
  /\ UNCHANGED task_vars

(* recv returns bytes that complete k records and that fill rx_buffer or   *)
(* not.                                                                    *)
ThreadRecv(c) ==
  /\ Running
  /\ threads[c].pc = "in_recv"
  /\ \E k \in 0 .. (MaxPending - threads[c].pending), fills \in BOOLEAN :
       LET t == [threads[c] EXCEPT !.pending = @ + k, !.full = fills]
       IN threads' = [threads EXCEPT ![c] =
            [t EXCEPT !.pc = IF fills THEN AfterInnerLoop(t) ELSE InnerLoop(t)]]
  /\ UNCHANGED <<globals, main, thread_mutex, timer_thread>>
  /\ UNCHANGED data_vars
  /\ UNCHANGED task_vars

(* recv returns 0: the client is done sending. *)
RecvEof(c) ==
  /\ Running
  /\ threads[c].pc = "in_recv"
  /\ threads' = [threads EXCEPT ![c].pc = "exit"]
  /\ UNCHANGED <<globals, main, thread_mutex, timer_thread>>
  /\ UNCHANGED data_vars
  /\ UNCHANGED task_vars

(* recv returns -1: the value is added to total_bytes and the inner loop   *)
(* runs on what rx_buffer holds.                                           *)
RecvError(c) ==
  /\ Running
  /\ threads[c].pc = "in_recv"
  /\ threads' = [threads EXCEPT ![c].failed = TRUE, ![c].pc = InnerLoop(threads[c])]
  /\ UNCHANGED <<globals, main, thread_mutex, timer_thread>>
  /\ UNCHANGED data_vars
  /\ UNCHANGED task_vars

Lock(c) ==
  /\ Running
  /\ threads[c].pc = "lock"
  /\ pthread_mutex_lock(Worker(c))
  /\ threads' = [threads EXCEPT ![c].pc = "locked"]
  /\ UNCHANGED <<main, timer_thread>>
  /\ UNCHANGED data_vars
  /\ UNCHANGED task_vars

(* The work done with the mutex held: a record is written to the log and   *)
(* leaves rx_buffer, or a seek command is carried out, which may count an  *)
(* error; what a seek command leaves in rx_buffer is some of the records   *)
(* that followed it.                                                       *)
Critical(c) ==
  /\ Running
  /\ threads[c].pc = "locked"
  /\ \/ threads' = [threads EXCEPT ![c].pending = @ - 1, ![c].pc = "unlock"]
     \/ \E error \in {0, 1}, left \in 0 .. (threads[c].pending - 1) :
          threads' = [threads EXCEPT ![c].client_errors = @ + error, ![c].pending = left,
                                     ![c].pc = "unlock"]
  /\ UNCHANGED <<globals, main, thread_mutex, timer_thread>>
  /\ UNCHANGED data_vars
  /\ UNCHANGED task_vars

(* Mutant of the unlock: the thread goes on to send with the mutex held. *)
Unlock_keeps_mutex(c) ==
  /\ Running
  /\ threads[c].pc = "unlock"
  /\ threads' = [threads EXCEPT ![c].pc = "send"]
  /\ UNCHANGED <<globals, main, thread_mutex, timer_thread>>
  /\ UNCHANGED data_vars
  /\ UNCHANGED task_vars

Unlock(c) ==
  /\ Running
  /\ threads[c].pc = "unlock"
  /\ pthread_mutex_unlock(Worker(c))
  /\ threads' = [threads EXCEPT ![c].pc = "send"]
  /\ UNCHANGED <<main, timer_thread>>
  /\ UNCHANGED data_vars
  /\ UNCHANGED task_vars

(* The fgets and send loop runs until fgets returns NULL; the inner loop   *)
(* then looks for the next record.                                         *)
SendLoop(c) ==
  /\ Running
  /\ threads[c].pc = "send"
  /\ threads' = [threads EXCEPT ![c].pc = InnerLoop(threads[c])]
  /\ UNCHANGED <<globals, main, thread_mutex, timer_thread>>
  /\ UNCHANGED data_vars
  /\ UNCHANGED task_vars

(* A send fails: the break leaves the fgets loop, and the inner loop looks *)
(* for the next record.                                                    *)
SendFails(c) ==
  /\ Running
  /\ threads[c].pc = "send"
  /\ LET t == [threads[c] EXCEPT !.client_errors = @ + 1, !.failed = TRUE]
     IN threads' = [threads EXCEPT ![c] = [t EXCEPT !.pc = InnerLoop(t)]]
  /\ UNCHANGED <<globals, main, thread_mutex, timer_thread>>
  /\ UNCHANGED data_vars
  /\ UNCHANGED task_vars

(* After the outer loop: fclose, free, close(client_fd), pthread_exit. *)
ThreadExit(c) ==
  /\ Running
  /\ threads[c].pc = "exit"
  /\ threads' = [threads EXCEPT ![c].pc = "exited", ![c].client_connected = FALSE,
                                ![c].thread_complete = TRUE,
                                ![c].closes = IF threads[c].client_connected THEN @ + 1 ELSE @]
  /\ UNCHANGED <<globals, main, thread_mutex, timer_thread>>
  /\ UNCHANGED data_vars
  /\ UNCHANGED task_vars

(* main: the test of the accept loop. *)
MainLoop ==
  /\ main.pc = "loop"
  /\ main' = [main EXCEPT !.pc = IF globals.exit_status THEN "final" ELSE "accept"]
  /\ UNCHANGED <<globals, thread_mutex, threads, timer_thread>>
  /\ UNCHANGED data_vars
  /\ UNCHANGED task_vars

(* Mutant of the sweep: every thread of the list is taken off and freed. *)
Sweep_takes_all(list) == <<>>

(* The threads of list that are not complete; the others are joined. *)
Sweep(list) == SelectSeq(list, LAMBDA d : ~threads[d].thread_complete)

(* Whether d is an element of list. *)
OnList(list, d) == \E i \in 1 .. Len(list) : list[i] = d

(* accept returns the connection of client c: its thread is created and    *)
(* put at the head of the list, and the complete threads are joined.  An   *)
(* accept that waits keeps the listening socket in use when another thread *)
(* closes its descriptor.                                                  *)
AcceptConn(c) ==
  /\ main.pc = "accept"
  /\ globals.listening # "shutdown"
  /\ threads[c].pc = "none"
  /\ \A d \in ConnIds : d < c => threads[d].pc # "none"
  /\ main' = [pc |-> "loop", head |-> Sweep(<<c>> \o main.head)]
  /\ threads' = [d \in ConnIds |->
       IF d = c THEN [NoThread EXCEPT !.pc = "start", !.client_connected = TRUE]
       ELSE IF OnList(main.head, d) /\ ~OnList(Sweep(main.head), d)
              THEN [threads[d] EXCEPT
                      !.closes = IF threads[d].client_connected THEN @ + 1 ELSE @,
                      !.pc = IF @ = "exited" THEN "joined" ELSE @,
                      !.freed_by = "sweep"]
              ELSE threads[d]]
  /\ UNCHANGED <<globals, thread_mutex, timer_thread>>
  /\ UNCHANGED data_vars
  /\ UNCHANGED task_vars

(* accept returns -1: the listening socket was shut down. *)
AcceptFails ==
  /\ main.pc = "accept"
  /\ globals.listening = "shutdown"
  /\ main' = [main EXCEPT !.pc = "loop"]
  /\ globals' = [globals EXCEPT !.exit_status = TRUE,
                                !.exit_by = IF globals.exit_status THEN @ ELSE "main"]
  /\ UNCHANGED <<thread_mutex, threads, timer_thread>>
  /\ UNCHANGED data_vars
  /\ UNCHANGED task_vars

(* accept returns a connection and the malloc of its thread_info fails. *)
AcceptNoMem ==
  /\ main.pc = "accept"
  /\ globals.listening # "shutdown"
  /\ main' = [main EXCEPT !.pc = "loop"]
  /\ globals' = [globals EXCEPT !.exit_status = TRUE,
                                !.exit_by = IF globals.exit_status THEN @ ELSE "main",
                                !.fd_unowned = TRUE]
  /\ UNCHANGED <<thread_mutex, threads, timer_thread>>
  /\ UNCHANGED data_vars
  /\ UNCHANGED task_vars

(* The last loop of main, up to pthread_join: the socket of the first      *)
(* thread of the list is closed when the thread has not closed it.  The    *)
(* close does not end a recv that is in progress on the socket: the open   *)
(* socket stays in use until the call returns.                             *)
FinalClose ==
  /\ main.pc = "final"
  /\ main.head # <<>>
  /\ main' = [main EXCEPT !.pc = "join"]
  /\ threads' = [threads EXCEPT ![Head(main.head)].main_closed =
                                   threads[Head(main.head)].client_connected,
                                ![Head(main.head)].closes =
                                   IF threads[Head(main.head)].client_connected
                                     THEN @ + 1 ELSE @]
  /\ UNCHANGED <<globals, thread_mutex, timer_thread>>
  /\ UNCHANGED data_vars
  /\ UNCHANGED task_vars

(* pthread_join returns when the thread has ended. *)
FinalJoin ==
  /\ main.pc = "join"
  /\ threads[Head(main.head)].pc = "exited"
  /\ main' = [pc |-> "final", head |-> Tail(main.head)]
  /\ threads' = [threads EXCEPT ![Head(main.head)].pc = "joined",
                                ![Head(main.head)].freed_by = "final"]
  /\ UNCHANGED <<globals, thread_mutex, timer_thread>>
  /\ UNCHANGED data_vars
  /\ UNCHANGED task_vars

(* cleanup(true) when the list is empty, up to pthread_mutex_destroy.      *)
(* Destroying a locked mutex is undefined: the mutex is destroyed or the   *)
(* call fails and leaves it.                                               *)
Cleanup ==
  /\ main.pc = "final"
  /\ main.head = <<>>
  /\ main' = [main EXCEPT !.pc = "cleanup"]
  /\ globals' = cleanup(globals, TRUE, "main")
  /\ \E destroyed \in (IF thread_mutex.state = "locked" THEN BOOLEAN ELSE {TRUE}) :
       thread_mutex' = IF globals.mutex_active /\ destroyed
                         THEN [state |-> "destroyed", owner |-> Nobody]
                         ELSE thread_mutex
  /\ UNCHANGED <<threads, timer_thread>>
  /\ UNCHANGED data_vars
  /\ UNCHANGED task_vars

(* The rest of cleanup(true) and the return of main: the process ends. *)
Return ==
  /\ main.pc = "cleanup"
  /\ main' = [main EXCEPT !.pc = "returned"]
  /\ UNCHANGED <<globals, thread_mutex, threads, timer_thread>>
  /\ UNCHANGED data_vars
  /\ UNCHANGED task_vars

(* SIGINT or SIGTERM: signal_handler. *)
Signal ==
  /\ Running
  /\ globals.signals = 0
  /\ globals' = [globals EXCEPT !.signals = @ + 1,
                                !.listening = IF @ = "open" THEN "shutdown" ELSE @,
                                !.exit_status = TRUE,
                                !.exit_by = IF globals.exit_status THEN @ ELSE "signal"]
  /\ UNCHANGED <<main, thread_mutex, threads, timer_thread>>
  /\ UNCHANGED data_vars
  /\ UNCHANGED task_vars

(* The timer expires: a thread runs timer_thread_handler, which formats    *)
(* the time and opens the file.                                            *)
TimerExpire ==
  /\ Running
  /\ globals.timer_active
  /\ timer_thread.pc = "idle"
  /\ timer_thread.expired < MaxExpire
  /\ timer_thread' = [pc |-> "lock", expired |-> timer_thread.expired + 1]
  /\ UNCHANGED <<globals, main, thread_mutex, threads>>
  /\ UNCHANGED data_vars
  /\ UNCHANGED task_vars

(* The handler goes on whatever pthread_mutex_lock returns. *)
TimerLock ==
  /\ Running
  /\ timer_thread.pc = "lock"
  /\ pthread_mutex_lock(Timer)
  /\ timer_thread' = [timer_thread EXCEPT !.pc = "fwrite"]
  /\ UNCHANGED <<main, threads>>
  /\ UNCHANGED data_vars
  /\ UNCHANGED task_vars

TimerWrite ==
  /\ Running
  /\ timer_thread.pc = "fwrite"
  /\ timer_thread' = [timer_thread EXCEPT !.pc = "unlock"]
  /\ UNCHANGED <<globals, main, thread_mutex, threads>>
  /\ UNCHANGED data_vars
  /\ UNCHANGED task_vars

TimerUnlock ==
  /\ Running
  /\ timer_thread.pc = "unlock"
  /\ pthread_mutex_unlock(Timer)
  /\ timer_thread' = [timer_thread EXCEPT !.pc = "fclose"]
  /\ UNCHANGED <<main, threads>>
  /\ UNCHANGED data_vars
  /\ UNCHANGED task_vars

TimerClose ==
  /\ Running
  /\ timer_thread.pc = "fclose"
  /\ timer_thread' = [timer_thread EXCEPT !.pc = "idle"]
  /\ UNCHANGED <<globals, main, thread_mutex, threads>>
  /\ UNCHANGED data_vars
  /\ UNCHANGED task_vars

----------------------------------------------------------------------------
(* SpecRing: the ring alone, driven as its unit tests drive it: entries are *)
(* added, and after an add the ring is looked up at one offset.  The k-th  *)
(* record added is one newline, or two bytes that name k and a newline.    *)

RecLens == {1, 3}

Rec(k, len) == [i \in 1 .. len |-> IF i = len THEN NL ELSE 96 + k]

NoLookup == [arg |-> -1, rtn |-> NotFound]

RingInit ==
  /\ buffer = aesd_circular_buffer_init
  /\ added = <<>>
  /\ find_rtn = NoLookup

AddEntry ==
  /\ Len(added) < MaxAdds
  /\ \E len \in RecLens :
       LET e == MkEntry(Rec(Len(added) + 1, len)) IN
       /\ buffer' = aesd_circular_buffer_add_entry(buffer, e)
       /\ added' = Append(added, e.buffptr)
  /\ find_rtn' = NoLookup
  /\ UNCHANGED drv_vars
  /\ UNCHANGED srv_vars
  /\ UNCHANGED thr_vars
  /\ UNCHANGED task_vars

FindEntry ==
  /\ find_rtn = NoLookup
  /\ \E o \in 0 .. (Len(LogicalLog(buffer)) + 2) :
       find_rtn' = [arg |-> o,
                    rtn |-> aesd_circular_buffer_find_entry_offset_for_fpos(buffer, o)]
  /\ UNCHANGED <<buffer, added>>
  /\ UNCHANGED drv_vars
  /\ UNCHANGED srv_vars
  /\ UNCHANGED thr_vars
  /\ UNCHANGED task_vars

RingNext == AddEntry \/ FindEntry

RingTestInit == RingInit /\ DrvOpen(0) /\ SrvIdle

SpecRing == RingTestInit /\ [][RingNext]_vars

----------------------------------------------------------------------------
(* SpecDriver: one process with the device open, making write, read and    *)
(* llseek calls.                                                           *)

Write ==
  /\ nwrites.made < MaxWrites
  /\ \E kind \in {"record", "partial"} :
       /\ kind = "partial" => nwrites.partial < MaxPartial
       /\ LET w == aesd_write(dev, WriteChunk(nwrites.total + 1, kind)) IN
          /\ dev' = w.dev
          /\ sys' = [op |-> "write", retval |-> w.retval, completed |-> kind = "record"]
       /\ nwrites' = [total |-> nwrites.total + 1,
                      made |-> nwrites.made + 1,
                      partial |-> nwrites.partial + (IF kind = "partial" THEN 1 ELSE 0)]
  /\ rd' = NoRead
  /\ UNCHANGED filp
  /\ UNCHANGED ring_vars
  /\ UNCHANGED srv_vars
  /\ UNCHANGED thr_vars
  /\ UNCHANGED task_vars

ReadCounts == {2, StdioBufSize}

Read ==
  /\ \E count \in ReadCounts :
       LET r == aesd_read(dev, filp.f_pos, count) IN
       /\ filp' = [f_pos |-> r.f_pos]
       /\ sys' = [op |-> "read", retval |-> r.retval, completed |-> FALSE]
       /\ rd' = IF rd.on /\ ~rd.eof
                  THEN [rd EXCEPT !.acc = rd.acc \o r.data, !.eof = (r.retval = 0)]
                  ELSE rd
  /\ UNCHANGED <<dev, nwrites>>
  /\ UNCHANGED ring_vars
  /\ UNCHANGED srv_vars
  /\ UNCHANGED thr_vars
  /\ UNCHANGED task_vars

SeekArgs ==
  ({SEEK_SET} \X (-1 .. (dev.buf_size + 1)))
    \cup ({SEEK_CUR, SEEK_END} \X {-1, 0})
    \cup {<<3, 0>>}

Llseek ==
  /\ \E a \in SeekArgs :
       LET r == aesd_llseek(dev, filp.f_pos, a[2], a[1]) IN
       /\ filp' = [f_pos |-> r.f_pos]
       /\ sys' = [op |-> "llseek", retval |-> r.retval, completed |-> FALSE]
       /\ rd' = IF r.retval >= 0 THEN FromStart(r.f_pos) ELSE rd
  /\ UNCHANGED <<dev, nwrites>>
  /\ UNCHANGED ring_vars
  /\ UNCHANGED srv_vars
  /\ UNCHANGED thr_vars
  /\ UNCHANGED task_vars

(* The commands tried: the first slots, the last slot, and the two values  *)
(* past it.                                                                *)
SeekCmds ==
  {0, 1, AESDCHAR_MAX_WRITE_OPERATIONS_SUPPORTED - 1,
   AESDCHAR_MAX_WRITE_OPERATIONS_SUPPORTED, AESDCHAR_MAX_WRITE_OPERATIONS_SUPPORTED + 1}

(* Mutant of the ioctl step: the seek also discards the partial command. *)
Ioctl_drops_partial ==
  /\ \E write_cmd \in SeekCmds, write_cmd_offset \in 0 .. MaxSeekOff :
       LET seek_cmd == [write_cmd |-> write_cmd, write_cmd_offset |-> write_cmd_offset]
           r == aesd_ioctl(dev, filp.f_pos, "AESDCHAR_IOCSEEKTO", seek_cmd, EmptyEntry)
       IN /\ filp' = [f_pos |-> r.f_pos]
          /\ sys' = [op |-> "ioctl", retval |-> r.retval, completed |-> FALSE,
                     seek_cmd |-> seek_cmd, before |-> filp.f_pos,
                     reads |-> ioctl_reads(dev, seek_cmd)]
  /\ dev' = [dev EXCEPT !.tmp_buf = NULL, !.tmp_size = 0]
  /\ rd' = NoRead
  /\ UNCHANGED nwrites
  /\ UNCHANGED ring_vars
  /\ UNCHANGED srv_vars
  /\ UNCHANGED thr_vars
  /\ UNCHANGED task_vars

Ioctl ==
  /\ \E write_cmd \in SeekCmds, write_cmd_offset \in 0 .. MaxSeekOff :
       LET seek_cmd == [write_cmd |-> write_cmd, write_cmd_offset |-> write_cmd_offset] IN
       \E oob \in (IF write_cmd = AESDCHAR_MAX_WRITE_OPERATIONS_SUPPORTED
                      THEN OobEntries ELSE {EmptyEntry}) :
         LET r == aesd_ioctl(dev, filp.f_pos, "AESDCHAR_IOCSEEKTO", seek_cmd, oob) IN
         /\ filp' = [f_pos |-> r.f_pos]
         /\ sys' = [op |-> "ioctl", retval |-> r.retval, completed |-> FALSE,
                    seek_cmd |-> seek_cmd, before |-> filp.f_pos,
                    reads |-> ioctl_reads(dev, seek_cmd)]
  /\ rd' = NoRead
  /\ UNCHANGED <<dev, nwrites>>
  /\ UNCHANGED ring_vars
  /\ UNCHANGED srv_vars
  /\ UNCHANGED thr_vars
  /\ UNCHANGED task_vars

DrvNext == Write \/ Read \/ Llseek

DrvProcInit == RingInit /\ DrvInit /\ SrvIdle

SpecDriver == DrvProcInit /\ [][DrvNext]_vars

(* SpecIoctl: one process with the device open, making write and ioctl     *)
(* calls.                                                                  *)
IoctlNext == Write \/ Ioctl

SpecIoctl == DrvProcInit /\ [][IoctlNext]_vars

(* SpecTasks: two tasks, each with the device open, inside the file        *)
(* operations at the same time.  A file operation is a sequence of steps:  *)
(* the checks before the mutex, mutex_lock_interruptible, the body, and    *)
(* mutex_unlock; aesd_read takes no mutex and is the lookup of the entry,  *)
(* the computing of the length, and copy_to_user.  kmalloc and krealloc    *)
(* may fail.  Memory that was allocated and not written holds any byte of  *)
(* Garbage.                                                                *)

TaskBufs(p) == { <<96 + p>>, <<96 + p, NL>> }

TaskReadCounts == {2}

TaskSeekArgs == { <<SEEK_END, 0>>, <<3, 0>> }

TaskSeekCmds == { <<0, 1>>, <<AESDCHAR_MAX_WRITE_OPERATIONS_SUPPORTED + 1, 0>> }

Garbage == {0, NL}

Tagged(buf, p) == [i \in 1 .. Len(buf) |-> [b |-> buf[i], w |-> p]]

Untagged(cells) == [i \in 1 .. Len(cells) |-> cells[i].b]

Returns(t, retval) == [t EXCEPT !.pc = "idle", !.retval = retval]

Calls(p, t) ==
  /\ task[p].pc = "idle"
  /\ wlog.calls < MaxCalls
  /\ task' = [task EXCEPT ![p] = t]
  /\ wlog' = [wlog EXCEPT !.calls = @ + 1]

(* aesd_write up to the mutex: a NULL user buffer goes to closeout. *)
WriteCall(p) ==
  /\ \E buf \in TaskBufs(p) \cup {NULL} :
       Calls(p, [task[p] EXCEPT !.op = "write", !.arg = buf,
                                !.retval = IF buf = NULL THEN -EFAULT ELSE -ENOMEM,
                                !.pc = IF buf = NULL THEN "unlock" ELSE "lock"])
  /\ UNCHANGED <<dev, mx_lock>>
  /\ UNCHANGED ring_vars
  /\ UNCHANGED proc_vars
  /\ UNCHANGED srv_vars
  /\ UNCHANGED thr_vars

LlseekCall(p) ==
  /\ \E a \in TaskSeekArgs :
       Calls(p, [task[p] EXCEPT !.op = "llseek", !.arg = a, !.pc = "lock"])
  /\ UNCHANGED <<dev, mx_lock>>
  /\ UNCHANGED ring_vars
  /\ UNCHANGED proc_vars
  /\ UNCHANGED srv_vars
  /\ UNCHANGED thr_vars

(* aesd_ioctl up to the mutex: a command past 10 returns at once. *)
IoctlCall(p) ==
  /\ \E a \in TaskSeekCmds :
       Calls(p, IF a[1] > AESDCHAR_MAX_WRITE_OPERATIONS_SUPPORTED
                  THEN Returns([task[p] EXCEPT !.op = "ioctl", !.arg = a], -EINVAL)
                  ELSE [task[p] EXCEPT !.op = "ioctl", !.arg = a, !.retval = 0,
                                       !.pc = "lock"])
  /\ UNCHANGED <<dev, mx_lock>>
  /\ UNCHANGED ring_vars
  /\ UNCHANGED proc_vars
  /\ UNCHANGED srv_vars
  /\ UNCHANGED thr_vars

(* mutex_lock_interruptible returns 0: the task holds dev->mx_lock. *)
MutexLock(p) ==
  /\ task[p].pc = "lock"
  /\ mx_lock = 0
  /\ mx_lock' = p
  /\ task' = [task EXCEPT ![p].pc = CASE task[p].op = "write" -> "w_body"
                                      [] task[p].op = "llseek" -> "s_body"
                                      [] OTHER -> "i_body"]
  /\ UNCHANGED <<dev, wlog>>
  /\ UNCHANGED ring_vars
  /\ UNCHANGED proc_vars
  /\ UNCHANGED srv_vars
  /\ UNCHANGED thr_vars

(* mutex_lock_interruptible is woken by a signal while it waits: the file  *)
(* operation returns -ERESTARTSYS without the mutex.                       *)
MutexInterrupted(p) ==
  /\ task[p].pc = "lock"
  /\ mx_lock # 0
  /\ task' = [task EXCEPT ![p] = Returns(@, -ERESTARTSYS)]
  /\ UNCHANGED <<dev, mx_lock, wlog>>
  /\ UNCHANGED ring_vars
  /\ UNCHANGED proc_vars
  /\ UNCHANGED srv_vars
  /\ UNCHANGED thr_vars

(* aesd_write between the mutex and closeout, its allocation succeeding.   *)
(* When tmp_size says more bytes than tmp_buf holds (an earlier krealloc   *)
(* failed), krealloc allocates anew and the bytes before the copied ones   *)
(* were never written.  An entry that the write frees may be the one a     *)
(* read is copying from.                                                   *)
WriteBody(p) ==
  /\ task[p].pc = "w_body"
  /\ \E g \in Garbage :
       LET buf == task[p].arg
           torn == dev.tmp_size > Len(dev.tmp_buf)
           d == IF torn THEN [dev EXCEPT !.tmp_buf = [i \in 1 .. dev.tmp_size |-> g]]
                        ELSE dev
           w == aesd_write(d, buf)
           promoted == w.dev.tmp_size = 0
           freed == d.aesd_cb.full /\ promoted
       IN /\ ~torn => g = 0
          /\ dev' = w.dev
          /\ task' = [q \in TaskIds |->
                        IF q = p
                          THEN [task[q] EXCEPT !.pc = "unlock", !.retval = w.retval]
                        ELSE IF /\ freed
                                /\ task[q].pc = "r_copy"
                                /\ task[q].ref.idx = d.aesd_cb.in_offs
                          THEN [task[q] EXCEPT !.ref.freed = TRUE]
                        ELSE task[q]]
          /\ wlog' = [wlog EXCEPT
                        !.acc = IF promoted THEN <<>> ELSE @ \o Tagged(buf, p),
                        !.promoted = IF promoted THEN wlog.acc \o Tagged(buf, p) ELSE @]
  /\ UNCHANGED mx_lock
  /\ UNCHANGED ring_vars
  /\ UNCHANGED proc_vars
  /\ UNCHANGED srv_vars
  /\ UNCHANGED thr_vars

(* aesd_write between the mutex and closeout when kmalloc or krealloc      *)
(* returns NULL: the result is assigned to dev->tmp_buf and the write goes *)
(* to closeout with -ENOMEM.                                               *)
WriteNoMem(p) ==
  /\ task[p].pc = "w_body"
  /\ dev' = [dev EXCEPT !.tmp_buf = NULL]
  /\ task' = [task EXCEPT ![p].pc = "unlock", ![p].retval = -ENOMEM]
  /\ UNCHANGED <<mx_lock, wlog>>
  /\ UNCHANGED ring_vars
  /\ UNCHANGED proc_vars
  /\ UNCHANGED srv_vars
  /\ UNCHANGED thr_vars

LlseekBody(p) ==
  /\ task[p].pc = "s_body"
  /\ LET r == aesd_llseek(dev, task[p].f_pos, task[p].arg[2], task[p].arg[1])
     IN task' = [task EXCEPT ![p].pc = "unlock", ![p].retval = r.retval,
                             ![p].f_pos = r.f_pos]
  /\ UNCHANGED <<dev, mx_lock, wlog>>
  /\ UNCHANGED ring_vars
  /\ UNCHANGED proc_vars
  /\ UNCHANGED srv_vars
  /\ UNCHANGED thr_vars

IoctlBody(p) ==
  /\ task[p].pc = "i_body"
  /\ LET seek_cmd == [write_cmd |-> task[p].arg[1], write_cmd_offset |-> task[p].arg[2]]
         r == aesd_ioctl(dev, task[p].f_pos, "AESDCHAR_IOCSEEKTO", seek_cmd, EmptyEntry)
     IN task' = [task EXCEPT ![p].pc = "unlock", ![p].retval = r.retval,
                             ![p].f_pos = r.f_pos]
  /\ UNCHANGED <<dev, mx_lock, wlog>>
  /\ UNCHANGED ring_vars
  /\ UNCHANGED proc_vars
  /\ UNCHANGED srv_vars
  /\ UNCHANGED thr_vars

(* mutex_unlock(&dev->mx_lock) and the return.  Unlocking a mutex that the *)
(* task does not hold is undefined: the mutex stays as it is, or is taken  *)
(* from the task that holds it.                                            *)
(* Mutant of the unlock: the file operation returns with the mutex held. *)
MutexUnlock_returns_locked(p) ==
  /\ task[p].pc = "unlock"
  /\ task' = [task EXCEPT ![p].pc = "idle"]
  /\ UNCHANGED <<dev, mx_lock, wlog>>
  /\ UNCHANGED ring_vars
  /\ UNCHANGED proc_vars
  /\ UNCHANGED srv_vars
  /\ UNCHANGED thr_vars

MutexUnlock(p) ==
  /\ task[p].pc = "unlock"
  /\ \E m \in (IF mx_lock = p THEN {0} ELSE {mx_lock, 0}) : mx_lock' = m
  /\ task' = [task EXCEPT ![p].pc = "idle"]
  /\ UNCHANGED <<dev, wlog>>
  /\ UNCHANGED ring_vars
  /\ UNCHANGED proc_vars
  /\ UNCHANGED srv_vars
  /\ UNCHANGED thr_vars

(* aesd_read: the lookup of the entry for f_pos, without the mutex. *)
ReadCall(p) ==
  /\ \E count \in TaskReadCounts :
       LET start_entry == aesd_circular_buffer_find_entry_offset_for_fpos(
                            dev.aesd_cb, task[p].f_pos)
           t == [task[p] EXCEPT !.op = "read", !.arg = <<count>>]
       IN Calls(p, IF start_entry.found
                     THEN [t EXCEPT !.pc = "r_size",
                                    !.ref = [idx |-> start_entry.idx, off |-> start_entry.off,
                                             len |-> 0, freed |-> FALSE]]
                     ELSE Returns(t, 0))
  /\ UNCHANGED <<dev, mx_lock>>
  /\ UNCHANGED ring_vars
  /\ UNCHANGED proc_vars
  /\ UNCHANGED srv_vars
  /\ UNCHANGED thr_vars

(* aesd_read: read_length from start_entry->size, as a size_t, and the      *)
(* address &start_entry->buffptr[start_entry_off] for copy_to_user.         *)
ReadSize(p) ==
  /\ task[p].pc = "r_size"
  /\ LET e == dev.aesd_cb.entry[task[p].ref.idx]
         count == task[p].arg[1]
         left == e.size - task[p].ref.off
         read_length == IF left < 0 \/ left > count THEN count ELSE left
     IN task' = [task EXCEPT ![p].pc = "r_copy", ![p].ref.len = read_length]
  /\ UNCHANGED <<dev, mx_lock, wlog>>
  /\ UNCHANGED ring_vars
  /\ UNCHANGED proc_vars
  /\ UNCHANGED srv_vars
  /\ UNCHANGED thr_vars

(* aesd_read: copy_to_user from the address computed, and the return. *)
ReadCopy(p) ==
  /\ task[p].pc = "r_copy"
  /\ task' = [task EXCEPT ![p] = [Returns(@, @.ref.len) EXCEPT
                                    !.f_pos = @ + task[p].ref.len,
                                    !.uaf = @ \/ task[p].ref.freed,
                                    !.ref = NoRef]]
  /\ UNCHANGED <<dev, mx_lock, wlog>>
  /\ UNCHANGED ring_vars
  /\ UNCHANGED proc_vars
  /\ UNCHANGED srv_vars
  /\ UNCHANGED thr_vars

TaskSteps(p) ==
  \/ WriteCall(p)
  \/ LlseekCall(p)
  \/ IoctlCall(p)
  \/ ReadCall(p)
  \/ MutexLock(p)
  \/ MutexInterrupted(p)
  \/ WriteBody(p)
  \/ WriteNoMem(p)
  \/ LlseekBody(p)
  \/ IoctlBody(p)
  \/ MutexUnlock(p)
  \/ ReadSize(p)
  \/ ReadCopy(p)

TasksNext == \E p \in TaskIds : TaskSteps(p)

SpecTasks == DrvProcInit /\ [][TasksNext]_vars

(* SpecWrite: one process with the device open, making write calls whose  *)
(* bytes need not end at a newline: a record, a part of one, a lone        *)
(* newline, a record followed by the start of the next.                    *)

WriteBufs == { <<97, NL>>, <<98>>, <<NL>>, <<99, NL, 100>> }

WriteBytes ==
  /\ nwrites.made < MaxWrites
  /\ \E buf \in WriteBufs :
       LET w == aesd_write(dev, buf) IN
       /\ dev' = w.dev
       /\ sys' = [op |-> "write", retval |-> w.retval,
                  completed |-> memchr(buf, NL, Len(buf)),
                  fed |-> (IF dev.tmp_size > 0 THEN dev.tmp_buf ELSE <<>>) \o buf]
  /\ nwrites' = [nwrites EXCEPT !.total = @ + 1, !.made = @ + 1]
  /\ rd' = NoRead
  /\ UNCHANGED filp
  /\ UNCHANGED ring_vars
  /\ UNCHANGED srv_vars
  /\ UNCHANGED thr_vars
  /\ UNCHANGED task_vars

SpecWrite == DrvProcInit /\ [][WriteBytes]_vars

----------------------------------------------------------------------------
(* SpecConn: one client connected to the server.  Each recv delivers one   *)
(* of a few chunks: a record, a part of one, a lone newline, two records,  *)
(* a seek command, a seek command without arguments.                       *)

ConnChunks ==
  { <<120, NL>>,
    <<121>>,
    <<NL>>,
    <<112, NL, 113, NL>>,
    SeekPrefix \o <<49, COMMA, 48, NL>>,
    SeekPrefix \o <<NL>> }

SrvInit == RingInit /\ DrvInit /\ SrvIdle

ConnNext ==
  \E c \in {1} :
    \/ Accept(c)
    \/ \E chunk \in ConnChunks : Recv(c, chunk, MaxRecv)
    \/ PeerClose(c)
    \/ Parse(c)
    \/ Echo(c)

SpecConn == SrvInit /\ [][ConnNext]_vars

(* SpecSeek: one client that sends seek commands, well formed and not,    *)
(* and records: AESDCHAR_IOCSEEKTO: followed by 1,0 or 9,0 or z,1 or 1 or  *)
(* 1,0,5 and a newline.                                                    *)

SeekChunks ==
  { <<120, NL>>,
    SeekPrefix \o <<49, COMMA, 48, NL>>,
    SeekPrefix \o <<57, COMMA, 48, NL>>,
    SeekPrefix \o <<122, COMMA, 49, NL>>,
    SeekPrefix \o <<49, NL>>,
    SeekPrefix \o <<49, COMMA, 48, COMMA, 53, NL>> }

SeekNext ==
  \E c \in {1} :
    \/ Accept(c)
    \/ \E chunk \in SeekChunks : Recv(c, chunk, MaxSeekRecv)
    \/ PeerClose(c)
    \/ Parse(c)
    \/ Echo(c)

SpecSeek == SrvInit /\ [][SeekNext]_vars

(* SpecFill: one client whose records are short or exactly as long as the *)
(* receive buffer: READ_SIZE - 1 bytes and a newline.  The long record is  *)
(* the last thing the client sends: it then waits for the echo or closes.  *)

FillRecord == [i \in 1 .. READ_SIZE |-> IF i = READ_SIZE THEN NL ELSE 102]

FillChunks == { <<120, NL>>, <<121>>, FillRecord }

FillNext ==
  \E c \in {1} :
    \/ Accept(c)
    \/ \E chunk \in FillChunks :
         /\ chunk = FillRecord => hist[c].nrecv = MaxFillRecv - 1
         /\ Recv(c, chunk, MaxFillRecv)
    \/ PeerClose(c)
    \/ Parse(c)
    \/ Echo(c)

SpecFill == SrvInit /\ [][FillNext]_vars

(* SpecServer: two clients connected at once, each sending whole records   *)
(* of its own.                                                             *)

ClientRecord(c) == <<119 + c, NL>>

ServerNext ==
  \E c \in ConnIds :
    \/ Accept(c)
    \/ Recv(c, ClientRecord(c), MaxRecvEach)
    \/ PeerClose(c)
    \/ Parse(c)
    \/ Echo(c)

SpecServer == SrvInit /\ [][ServerNext]_vars

(* SpecThreads: the process built with USE_AESD_CHAR_DEVICE=1, serving up *)
(* to two clients, from the first pass of the accept loop to the return of *)
(* main.                                                                   *)

ThreadSteps(c) ==
  \/ ThreadStart(c)
  \/ StartFails(c)
  \/ ReallocFails(c)
  \/ RecvCall(c)
  \/ Lock(c)
  \/ Critical(c)
  \/ Unlock(c)
  \/ SendLoop(c)
  \/ SendFails(c)
  \/ ThreadExit(c)

MainSteps ==
  \/ MainLoop
  \/ AcceptFails
  \/ FinalClose
  \/ FinalJoin
  \/ Cleanup
  \/ Return

(* What the clients, the network and the user of the process do. *)
Outside(c) ==
  \/ AcceptConn(c)
  \/ ThreadRecv(c)
  \/ RecvEof(c)
  \/ RecvError(c)

ThreadsNext ==
  \/ MainSteps
  \/ AcceptNoMem
  \/ Signal
  \/ \E c \in ConnIds : ThreadSteps(c) \/ Outside(c)

ThreadsInit == RingInit /\ DrvOpen(0) /\ ConnIdle /\ AtAcceptLoop(1)

SpecThreads == ThreadsInit /\ [][ThreadsNext]_vars

(* SpecTimer: the process built with USE_AESD_CHAR_DEVICE=0, where the log *)
(* is a file and a timer appends timestamps to it, serving one client.     *)

TimerSteps ==
  \/ TimerLock
  \/ TimerWrite
  \/ TimerUnlock
  \/ TimerClose

TimerNext ==
  \/ MainSteps
  \/ AcceptNoMem
  \/ Signal
  \/ TimerExpire
  \/ TimerSteps
  \/ \E c \in {1} : ThreadSteps(c) \/ Outside(c)

TimerBuildInit == RingInit /\ DrvOpen(0) /\ ConnIdle /\ AtAcceptLoop(0)

SpecTimer == TimerBuildInit /\ [][TimerNext]_vars

(* SpecLocks: the two mutexes.  The server of the build that keeps the log *)
(* in a file, with its timer, and the tasks that use the driver have no    *)
(* state in common: a run is steps of the server or steps of the tasks.    *)
LocksNext ==
  \/ TasksIdle /\ TimerNext
  \/ AtAcceptLoop(0) /\ TasksNext

SpecLocks == TimerBuildInit /\ [][LocksNext]_vars

----------------------------------------------------------------------------
(* Claims about the server *)

(* The echo that followed the last record of connection c has ended. *)
EchoDone(c) == conn[c].pc \in {"parse", "recv", "closed"} /\ hist[c].after = "record"

(* C6: with several clients appending, the bytes echoed for one record are *)
(* a contiguous part, from the connection's cursor on, of the logical log  *)
(* as it was at one single moment after that record was appended; another  *)
(* writer's overwrite of the oldest record never mixes two log states.     *)
C6_EchoOfOneLogState ==
  \A c \in ConnIds :
    EchoDone(c) =>
      \E log \in hist[c].snaps :
        \E n \in 0 .. Len(log) :
          hist[c].echo = SubSeq(log, hist[c].echo_start + 1, hist[c].echo_start + n)

(* The first byte of the line of stream that holds the byte at index i. *)
RECURSIVE LineStart(_, _)
LineStart(stream, i) ==
  IF i = 1 \/ stream[i - 1] = NL THEN i ELSE LineStart(stream, i - 1)

(* The byte at index i of stream belongs to a seek command: a line that    *)
(* begins with the prefix and is ended by a newline.                       *)
InSeekCommand(stream, i) ==
  LET a == LineStart(stream, i) IN
  /\ \E j \in i .. Len(stream) : stream[j] = NL
  /\ a + AESD_IOCTL_PREFIX_LEN - 1 <= Len(stream)
  /\ SubSeq(stream, a, a + AESD_IOCTL_PREFIX_LEN - 1) = SeekPrefix

BeginsWithPrefix(rec) ==
  /\ Len(rec) >= AESD_IOCTL_PREFIX_LEN
  /\ SubSeq(rec, 1, AESD_IOCTL_PREFIX_LEN) = SeekPrefix

(* C7: whatever the connections receive, no record that begins with the    *)
(* prefix AESDCHAR_IOCSEEKTO: is appended to the log, and no byte of a     *)
(* seek command reaches the log, hence none reaches an echo.               *)
C7_SeekCommandsStayOut ==
  \A c \in ConnIds :
    \A r \in 1 .. Len(hist[c].appended) :
      LET rec == hist[c].appended[r] IN
      /\ ~BeginsWithPrefix(Bytes(rec))
      /\ \A i \in 1 .. Len(rec) :
           rec[i].s > 0 => ~InSeekCommand(hist[c].stream, rec[i].s)

(* C8, as claimed: on a connection that sends no seek command the cursor   *)
(* never decreases.                                                        *)
C8_CursorNeverDecreases ==
  [][\A c \in ConnIds :
       ~hist'[c].seeked => conn'[c].f_pos >= conn[c].f_pos]_vars

(* C8, amended: on a connection that sends no seek command the cursor is   *)
(* set to 0 by each record the connection appends and never decreases      *)
(* otherwise.                                                              *)
C8_CursorResetOnlyByAppend ==
  [][\A c \in ConnIds :
       ~hist'[c].seeked =>
          IF Len(hist'[c].appended) > Len(hist[c].appended)
            THEN conn'[c].f_pos = 0
            ELSE conn'[c].f_pos >= conn[c].f_pos]_vars

C8_Witness ==
  \E c \in ConnIds :
    /\ ~hist[c].seeked
    /\ Len(hist[c].appended) >= 2
    /\ hist[c].after = "record"
    /\ conn[c].pc = "echo"
    /\ conn[c].f_pos > 0
    /\ Len(hist[c].echo) = conn[c].f_pos

(* C9: on a connection that sent no seek command, with no other writer,    *)
(* the bytes echoed after a newline-terminated record are the present      *)
(* records in logical order, and the last of them is the record just sent. *)
C9_EchoIsWholeLog ==
  \A c \in ConnIds :
    (EchoDone(c) /\ ~hist[c].seeked) =>
      LET recs == PresentRecords(dev.aesd_cb)
          sent == hist[c].appended[Len(hist[c].appended)]
      IN /\ hist[c].echo = Concat(recs)
         /\ recs # <<>>
         /\ recs[Len(recs)] = Bytes(sent)
         /\ \A i \in 1 .. Len(sent) :
              /\ sent[i].s > 0
              /\ hist[c].stream[sent[i].s] = sent[i].b
              /\ i > 1 => sent[i].s = sent[i - 1].s + 1
         /\ sent[Len(sent)].b = NL
         /\ \A i \in 1 .. (Len(sent) - 1) : sent[i].b # NL

C9_Witness ==
  \E c \in ConnIds :
    /\ EchoDone(c) /\ ~hist[c].seeked
    /\ Len(hist[c].appended) >= 2
    /\ dev.aesd_cb.full /\ dev.aesd_cb.out_offs > 0
    /\ hist[c].echo = LogicalLog(dev.aesd_cb)
    /\ Len(hist[c].echo) > 4

IsDigit(b) == b \in 48 .. 57

(* args is two base-10 unsigned integers separated by one comma. *)
WellFormedArgs(args) ==
  \E i \in 2 .. (Len(args) - 1) :
    /\ args[i] = COMMA
    /\ \A j \in (1 .. Len(args)) \ {i} : IsDigit(args[j])

(* C14: a record with the seek prefix whose remainder is not two base-10   *)
(* unsigned integers separated by one comma is malformed: no seek is       *)
(* applied to the cursor.                                                  *)
C14_MalformedSeekNotApplied ==
  \A c \in ConnIds :
    (hist[c].after = "seek" /\ ~WellFormedArgs(hist[c].ioctl.args)) =>
       hist[c].ioctl.to = hist[c].ioctl.from

(* C16: after a failed seek command the connection stays open: the worker  *)
(* does not leave its receive loop when the pass over the buffer ends.     *)
C16_FailedSeekKeepsConnection ==
  [][\A c \in ConnIds :
       (hist[c].after = "seek" /\ conn[c].client_errors > 0 /\ conn[c].pc = "parse")
         => conn'[c].pc # "closed"]_vars

(* C17: processing a seek command sends no bytes to the client.            *)
C17_NoEchoAfterSeek ==
  \A c \in ConnIds : hist[c].after = "seek" => hist[c].echo = <<>>

(* The stream of c ends with a whole record that is no seek command and   *)
(* that follows a seek command, which succeeded.                          *)
RecordAfterSeek(c) ==
  LET stream == hist[c].stream
      a == LineStart(stream, Len(stream))
  IN /\ stream # <<>> /\ stream[Len(stream)] = NL
     /\ ~InSeekCommand(stream, Len(stream))
     /\ a > 1 /\ InSeekCommand(stream, a - 1)
     /\ hist[c].ioctl.called /\ hist[c].ioctl.retval = 0

(* C18: once the worker has handled all it received, a record sent after   *)
(* a successful seek command has been appended and its echo is the log     *)
(* from the offset of the seek to the end, the new record included.        *)
C18_EchoFromSeekedCursor ==
  \A c \in ConnIds :
    (conn[c].pc = "recv" /\ RecordAfterSeek(c)) =>
       LET stream == hist[c].stream
           log == LogicalLog(dev.aesd_cb)
           rec == SubSeq(stream, LineStart(stream, Len(stream)), Len(stream))
       IN /\ hist[c].after = "record"
          /\ hist[c].appended # <<>>
          /\ Bytes(hist[c].appended[Len(hist[c].appended)]) = rec
          /\ hist[c].echo = SubSeq(log, hist[c].ioctl.to + 1, Len(log))

(* The bytes that the step delivers to connection c, if it is a recv. *)
Received(c) ==
  SubSeq(hist'[c].stream, Len(hist[c].stream) + 1, Len(hist'[c].stream))

(* C19: a recv that delivers bytes with no newline appends nothing and     *)
(* sends nothing: the pending data grows by the bytes received and the     *)
(* pass over the buffer that follows finds no record in it.                *)
C19_NoNewlineNoRecord ==
  [][\A c \in ConnIds :
       (hist'[c].nrecv = hist[c].nrecv + 1 /\ \A i \in 1 .. Len(Received(c)) : Received(c)[i] # NL)
         => /\ conn'[c].total_bytes = conn[c].total_bytes + Len(Received(c))
            /\ dev' = dev /\ hist'[c].echo = hist[c].echo
            /\ strchr(conn'[c].rx_buffer, NL, 0) = -1]_vars

(* The newline-terminated pieces of stream, in order. *)
RECURSIVE Pieces(_)
Pieces(stream) ==
  IF \A i \in 1 .. Len(stream) : stream[i] # NL THEN <<>>
  ELSE LET n == CHOOSE i \in 1 .. Len(stream) :
                   stream[i] = NL /\ \A j \in 1 .. (i - 1) : stream[j] # NL
       IN <<SubSeq(stream, 1, n)>> \o Pieces(SubSeq(stream, n + 1, Len(stream)))

(* C20: on a connection that sends no seek command the records appended    *)
(* are the newline-terminated pieces of the stream received, in order,     *)
(* however the stream was split over the recv calls: all of them once the  *)
(* worker waits for more, and the first of them at any time.               *)
C20_RecordsArePieces ==
  \A c \in ConnIds :
    ~hist[c].seeked =>
      LET pieces == Pieces(hist[c].stream)
          recs == [r \in 1 .. Len(hist[c].appended) |-> Bytes(hist[c].appended[r])]
      IN /\ Len(recs) <= Len(pieces)
         /\ recs = SubSeq(pieces, 1, Len(recs))
         /\ conn[c].pc = "recv" => recs = pieces

(* Thread t holds thread_mutex. *)
Holds(t) == thread_mutex.state = "locked" /\ thread_mutex.owner = t

(* C22: every operation that reads or changes the shared log (the append,  *)
(* the seek, the read for the echo, the append of a timestamp) runs with   *)
(* the log mutex held by the thread that makes it: a worker between its    *)
(* lock and its unlock or in its fgets loop holds the mutex, and so does   *)
(* the timer thread from its fwrite to the fclose that writes the bytes.   *)
C22_LogOnlyUnderMutex ==
  /\ \A c \in ConnIds : threads[c].pc \in {"locked", "send"} => Holds(Worker(c))
  /\ timer_thread.pc \in {"fwrite", "fclose"} => Holds(Timer)

(* C23: no worker calls send or recv on its socket while it holds the log  *)
(* mutex.                                                                  *)
C23_NoSocketCallUnderMutex ==
  \A c \in ConnIds : threads[c].pc \in {"in_recv", "send"} => ~Holds(Worker(c))

(* A worker is in its send loop while another worker holds the mutex. *)
C23_Witness ==
  ~ \E c, d \in ConnIds :
      /\ c # d
      /\ threads[c].pc = "send"
      /\ Holds(Worker(d))

(* C24: a failure inside one worker (no memory for the receive buffer, the *)
(* log cannot be opened, a send error) stays in its connection: no worker  *)
(* closes the listening socket or sets exit_status.                        *)
C24_WorkerFailureStaysLocal ==
  /\ globals.closed_by # "worker"
  /\ globals.exit_by # "worker"

(* C25: an error returned by recv, by send or by the allocation or the     *)
(* growth of the receive buffer ends the worker: from then on it is on its *)
(* way out (it calls recv no more and appends no more) or has exited.      *)
C25_ErrorClosesWorker ==
  \A c \in ConnIds : threads[c].failed => threads[c].pc \in {"exit", "exited", "joined"}

(* A step of the process that waits for nothing outside it. *)
ServerStep == MainSteps \/ TimerSteps \/ \E c \in ConnIds : ThreadSteps(c)

(* C26: once a signal has set exit_status the process comes to its end     *)
(* without the help of any client: until main has returned, some thread of *)
(* the process can take a step that waits for no client.                   *)
C26_ShutdownCompletes ==
  (globals.exit_status /\ globals.exit_by = "signal") =>
    (main.pc = "returned" \/ ENABLED ServerStep)

(* C27: the mutex and the timer are destroyed only when every thread that  *)
(* uses them (the workers, a timer_thread_handler in progress) has         *)
(* finished, and no thread locks or unlocks the mutex after it.            *)
C27_DestroyAfterAllUsers ==
  /\ (thread_mutex.state = "destroyed" \/ ~globals.mutex_active) =>
       /\ \A c \in ConnIds : threads[c].pc \in {"none", "joined"}
       /\ timer_thread.pc = "idle"
  /\ globals.after_destroy = {}

(* C39: a thread that has taken the log mutex is inside the operation     *)
(* that took it, at a step that leads to the unlock, and returns only      *)
(* after the unlock: the driver's write, llseek and ioctl on every path,   *)
(* the worker handling a record, the timer callback.  Hence whoever waits  *)
(* for the mutex waits for a holder that can go on to release it.          *)
C39_LockerReleases ==
  /\ \A p \in TaskIds :
       /\ mx_lock = p => task[p].pc \in {"w_body", "s_body", "i_body", "unlock"}
       /\ (task[p].pc = "lock" /\ mx_lock # 0) => ENABLED TaskSteps(mx_lock)
  /\ \A c \in ConnIds :
       /\ Holds(Worker(c)) => threads[c].pc \in {"locked", "unlock"}
       /\ (threads[c].pc = "lock" /\ Holds(Timer)) => ENABLED TimerSteps
       /\ (timer_thread.pc = "lock" /\ Holds(Worker(c))) => ENABLED ThreadSteps(c)
  /\ Holds(Timer) => timer_thread.pc \in {"fwrite", "unlock"}

C39_Witness ==
  /\ mx_lock = 1
  /\ task[1].pc = "unlock"
  /\ task[1].retval = -ENOMEM
  /\ task[2].pc = "lock"

(* C33: in the build that keeps the log in a file, the bytes of a          *)
(* timestamp go to the log only while the timer thread holds the mutex,    *)
(* so never while a worker holds it in the middle of writing a record.     *)
C33_TimestampUnderMutex ==
  [][(timer_thread.pc = "fclose" /\ timer_thread'.pc = "idle") =>
       /\ Holds(Timer)
       /\ \A c \in ConnIds : ~(Holds(Worker(c)) /\ threads[c].pc = "locked")]_vars

(* C37: every client socket that accept returned is closed exactly once   *)
(* before the server exits, whatever the path: never twice, by main and by *)
(* the worker, and never left open when main returns.                      *)
C37_SocketClosedOnce ==
  /\ \A c \in ConnIds : threads[c].closes <= 1
  /\ main.pc = "returned" =>
        /\ ~globals.fd_unowned
        /\ \A c \in ConnIds : threads[c].pc # "none" => threads[c].closes = 1

(* C40: a worker whose thread_info was put on the list stays on it until   *)
(* main joins it, is joined once, by the sweep after an accept or by the   *)
(* last loop, and its thread_info is freed only then: no thread_info is    *)
(* freed while its thread can still run, and when main returns every       *)
(* worker has been joined and freed.                                       *)
C40_JoinedThenFreed ==
  /\ \A c \in ConnIds :
       /\ threads[c].freed_by # "none" <=> threads[c].pc = "joined"
       /\ OnList(main.head, c) <=> threads[c].pc \notin {"none", "joined"}
       /\ Cardinality({i \in 1 .. Len(main.head) : main.head[i] = c}) <= 1
  /\ main.pc = "returned" => \A c \in ConnIds : threads[c].pc \in {"none", "joined"}

C40_Witness ==
  /\ main.pc = "returned"
  /\ threads[1].freed_by = "sweep"
  /\ threads[2].freed_by = "final"
  /\ threads[2].failed

(* C21: when the bytes received hold a whole record that is not a seek    *)
(* command, the worker appends it before it waits in recv again or closes, *)
(* whatever the length of the record: a worker that is about to call recv  *)
(* or has closed has appended as many records as its stream holds.         *)
C21_RecordAppendedBeforeNextRecv ==
  \A c \in ConnIds :
    (~crashed /\ ~hist[c].seeked /\ conn[c].pc \in {"recv", "closed"}) =>
      Len(hist[c].appended) >= Len(Pieces(hist[c].stream))

(* The places in the stream of connection c of the received bytes of the  *)
(* i-th record it appended.                                                *)
ArrivedAt(c, i) ==
  {hist[c].appended[i][x].s : x \in DOMAIN hist[c].appended[i]} \ {0}

(* C28: within one connection the records are appended in the order their *)
(* bytes arrived: a record whose bytes all arrived before the bytes of     *)
(* another record is appended before it.                                   *)
C28_AppendedInArrivalOrder ==
  \A c \in ConnIds :
    \A i, j \in DOMAIN hist[c].appended :
      (/\ ArrivedAt(c, i) # {}
       /\ ArrivedAt(c, j) # {}
       /\ \A a \in ArrivedAt(c, i), b \in ArrivedAt(c, j) : a < b)
        => i < j

----------------------------------------------------------------------------
(* Claims about the driver *)

TotalBytes(d) == SumLen(PresentRecords(d.aesd_cb))

(* C2: after every completed append, also one that overwrites the oldest   *)
(* record of a full ring, buf_size is the sum of the lengths of the        *)
(* records present in the ring.                                            *)
C2_BufSizeIsSum ==
  (sys.op = "write" /\ sys.completed) => dev.buf_size = TotalBytes(dev)

(* C10: with no writer in between, after the cursor was set to an offset O *)
(* with 0 <= O <= total bytes, reading until a read returns 0 yields the   *)
(* bytes [O, total) of the logical log and leaves the cursor at total.     *)
C10_SeekThenReadToEnd ==
  (rd.on /\ rd.eof /\ rd.start <= TotalBytes(dev)) =>
     /\ rd.acc = SubSeq(LogicalLog(dev.aesd_cb), rd.start + 1, TotalBytes(dev))
     /\ filp.f_pos = TotalBytes(dev)

C10_Witness ==
  /\ rd.on /\ rd.eof
  /\ sys.op = "read"
  /\ rd.start > 0
  /\ Len(rd.acc) > 4
  /\ dev.aesd_cb.full /\ dev.aesd_cb.out_offs > 0
  /\ rd.acc = SubSeq(LogicalLog(dev.aesd_cb), rd.start + 1, TotalBytes(dev))

(* The seek command of the last ioctl addresses a present record, at a     *)
(* byte of it, when write_cmd is read as a logical (oldest first) index.   *)
ValidSeek ==
  /\ sys.op = "ioctl"
  /\ sys.seek_cmd.write_cmd < NumPresent(dev.aesd_cb)
  /\ sys.seek_cmd.write_cmd_offset <
       Len(PresentRecords(dev.aesd_cb)[sys.seek_cmd.write_cmd + 1])

(* C11: a valid seek (write_cmd, write_cmd_offset) sets the cursor to the  *)
(* sum of the lengths of the present records before record write_cmd in    *)
(* logical order plus write_cmd_offset, also after the ring has wrapped.   *)
C11_SeekToLogicalRecord ==
  ValidSeek =>
    /\ sys.retval = 0
    /\ filp.f_pos = SumLen(SubSeq(PresentRecords(dev.aesd_cb), 1, sys.seek_cmd.write_cmd))
                      + sys.seek_cmd.write_cmd_offset

(* C12: a seek whose write_cmd_offset is at or past the length of the      *)
(* addressed record (by slot and by logical index alike) is rejected: an   *)
(* error is returned and the cursor is not moved.                          *)
C12_OffsetAtLengthRejected ==
  ( /\ sys.op = "ioctl"
    /\ sys.seek_cmd.write_cmd < NumPresent(dev.aesd_cb)
    /\ sys.seek_cmd.write_cmd_offset >= dev.aesd_cb.entry[sys.seek_cmd.write_cmd].size
    /\ sys.seek_cmd.write_cmd_offset >=
         Len(PresentRecords(dev.aesd_cb)[sys.seek_cmd.write_cmd + 1]) )
  => (sys.retval # 0 /\ filp.f_pos = sys.before)

(* C13: a seek whose write_cmd is 10 or more, or names a slot that holds   *)
(* no record, is rejected with an error, and the ioctl reads no slot       *)
(* outside [0, 10).                                                        *)
C13_SlotInRange ==
  sys.op = "ioctl" =>
    /\ sys.reads \subseteq Slots
    /\ ( \/ sys.seek_cmd.write_cmd >= AESDCHAR_MAX_WRITE_OPERATIONS_SUPPORTED
         \/ ~entry_present(dev.aesd_cb.entry[sys.seek_cmd.write_cmd]) )
       => sys.retval # 0

(* C15: a seek that fails leaves the cursor where it was.                  *)
C15_FailedSeekKeepsCursor ==
  (sys.op = "ioctl" /\ sys.retval # 0) => filp.f_pos = sys.before

(* C29: every record present in the ring has a length above zero, ends    *)
(* with a newline and holds no other newline.                              *)
C29_RecordsAreLines ==
  \A k \in DOMAIN PresentRecords(dev.aesd_cb) :
    LET r == PresentRecords(dev.aesd_cb)[k] IN
    /\ Len(r) > 0
    /\ r[Len(r)] = NL
    /\ \A i \in 1 .. (Len(r) - 1) : r[i] # NL

(* The index of the first newline of s. *)
FirstNewline(s) == CHOOSE i \in 1 .. Len(s) : s[i] = NL /\ \A j \in 1 .. (i - 1) : s[j] # NL

(* s holds a newline and, after its first newline, only bytes that are not *)
(* newlines, at least one.                                                 *)
NewlineThenTail(s) ==
  /\ \E i \in 1 .. Len(s) : s[i] = NL
  /\ FirstNewline(s) < Len(s)
  /\ \A i \in (FirstNewline(s) + 1) .. Len(s) : s[i] # NL

(* C30: when the bytes fed to the log hold a newline followed by further   *)
(* bytes that are not newlines, the record promoted is the shortest prefix *)
(* that ends at the first newline and the bytes after it stay in the       *)
(* partial buffer.                                                         *)
C30_PromotesShortestPrefix ==
  (sys.op = "write" /\ "fed" \in DOMAIN sys /\ NewlineThenTail(sys.fed)) =>
    LET recs == PresentRecords(dev.aesd_cb)
        n == FirstNewline(sys.fed)
    IN /\ recs # <<>>
       /\ recs[Len(recs)] = SubSeq(sys.fed, 1, n)
       /\ dev.tmp_size = Len(sys.fed) - n
       /\ dev.tmp_buf = SubSeq(sys.fed, n + 1, Len(sys.fed))

(* C34: a seek, whether it succeeds or fails, leaves the log as it was:   *)
(* the ring slots, in_offs, out_offs and full, the partial command and its *)
(* length, and the total of bytes are the same after the ioctl as before;  *)
(* only the caller's file position may change.                             *)
C34_SeekLeavesLog ==
  [][sys'.op = "ioctl" =>
       /\ dev'.aesd_cb.entry = dev.aesd_cb.entry
       /\ dev'.aesd_cb.in_offs = dev.aesd_cb.in_offs
       /\ dev'.aesd_cb.out_offs = dev.aesd_cb.out_offs
       /\ dev'.aesd_cb.full = dev.aesd_cb.full
       /\ dev'.tmp_buf = dev.tmp_buf
       /\ dev'.tmp_size = dev.tmp_size
       /\ dev'.buf_size = dev.buf_size]_vars

C34_Witness ==
  /\ sys.op = "ioctl"
  /\ sys.retval = 0
  /\ filp.f_pos # sys.before
  /\ dev.aesd_cb.full
  /\ dev.tmp_size > 0

(* The newest record of the ring: the entry before in_offs. *)
NewestEntry(b) ==
  b.entry[(b.in_offs + AESDCHAR_MAX_WRITE_OPERATIONS_SUPPORTED - 1)
            % AESDCHAR_MAX_WRITE_OPERATIONS_SUPPORTED]

(* C31: the device has one partial buffer for all writers: it holds the    *)
(* bytes of the writes without a newline, of whichever task, in the order  *)
(* in which the writers held the mutex, and the first write with a newline *)
(* makes one record of all of them followed by its own bytes.              *)
C31_OnePartialBuffer ==
  /\ dev.tmp_size = Len(wlog.acc)
  /\ dev.tmp_buf = Untagged(wlog.acc)
  /\ wlog.promoted # <<>> =>
        NewestEntry(dev.aesd_cb).buffptr = Untagged(wlog.promoted)

(* C32: no read copies from the memory of an entry that a write has freed  *)
(* since the read found the entry.                                         *)
C32_NoReadOfFreedEntry == \A p \in TaskIds : ~task[p].uaf

(* C35: a write whose allocation fails returns the error and leaves the    *)
(* device as it was: ring, partial buffer, its length and the total of     *)
(* bytes, with the length still that of the partial buffer.                *)
C35_FailedAllocKeepsLog ==
  [][\A p \in TaskIds :
       (task[p].pc = "w_body" /\ task'[p].pc = "unlock" /\ task'[p].retval = -ENOMEM) =>
         /\ dev' = dev
         /\ dev'.tmp_size = Len(dev'.tmp_buf)]_vars

(* C38: a file operation unlocks dev->mx_lock only when that call holds it. *)
C38_UnlockOnlyByHolder ==
  [][\A p \in TaskIds :
       (task[p].pc = "unlock" /\ task'[p].pc = "idle") => mx_lock = p]_vars

----------------------------------------------------------------------------
(* Claims about the ring *)

OccupiedSlots(b) == {i \in Slots : b.entry[i].size > 0}

(* C1: after any sequence of adds on an initially empty ring the number of *)
(* records present is min(number of adds, 10), hence never more than 10.   *)
C1_RingCapacity ==
  /\ NumPresent(buffer) = Min(Len(added), AESDCHAR_MAX_WRITE_OPERATIONS_SUPPORTED)
  /\ Cardinality(OccupiedSlots(buffer)) = NumPresent(buffer)
  /\ NumPresent(buffer) <= AESDCHAR_MAX_WRITE_OPERATIONS_SUPPORTED

C1_Witness ==
  /\ Len(added) > AESDCHAR_MAX_WRITE_OPERATIONS_SUPPORTED
  /\ NumPresent(buffer) = AESDCHAR_MAX_WRITE_OPERATIONS_SUPPORTED

(* C3: an add to a ring that holds 10 records removes exactly the oldest   *)
(* record; the other 9 keep their order and the new record is the newest.  *)
C3_OverwriteOldest ==
  [][(buffer.full /\ added' # added) =>
        PresentRecords(buffer') =
          Append(Tail(PresentRecords(buffer)), added'[Len(added')])]_vars

C3_Witness ==
  /\ buffer.full
  /\ Len(added) = AESDCHAR_MAX_WRITE_OPERATIONS_SUPPORTED + 2
  /\ PresentRecords(buffer) = LastN(added, AESDCHAR_MAX_WRITE_OPERATIONS_SUPPORTED)

(* C4: while fewer than 10 records have been added, every added record is  *)
(* present, byte for byte, in the order of adding.                         *)
C4_NoLossBeforeOverflow ==
  Len(added) < AESDCHAR_MAX_WRITE_OPERATIONS_SUPPORTED => PresentRecords(buffer) = added

C4_Witness ==
  /\ Len(added) = AESDCHAR_MAX_WRITE_OPERATIONS_SUPPORTED - 1
  /\ PresentRecords(buffer) = added
  /\ \E i, j \in 1 .. Len(added) : Len(added[i]) # Len(added[j])

(* C5: the lookup returns NULL iff the offset is at or past the sum of the *)
(* lengths of the present records; otherwise it returns the record r and   *)
(* the byte b < length(r) with (lengths of the records before r) + b equal *)
(* to the offset.                                                          *)
C5_LookupResolves ==
  find_rtn.arg >= 0 =>
    LET recs == PresentRecords(buffer)
        r == find_rtn.rtn
    IN /\ (~r.found) <=> (find_rtn.arg >= SumLen(recs))
       /\ r.found =>
            \E k \in 1 .. Len(recs) :
              /\ LogicalSlots(buffer)[k] = r.idx
              /\ r.off < Len(recs[k])
              /\ SumLen(SubSeq(recs, 1, k - 1)) + r.off = find_rtn.arg

C5_Witness ==
  /\ find_rtn.arg >= 0
  /\ find_rtn.rtn.found
  /\ buffer.full
  /\ find_rtn.rtn.idx < buffer.out_offs
  /\ find_rtn.rtn.off > 0

(* C36: in every ring reached from init by adds, in_offs and out_offs are  *)
(* in 0..9; while the ring is not full out_offs is 0 and the records       *)
(* present are exactly slots [0, in_offs), in the order added; once full,  *)
(* in_offs = out_offs and slots [in_offs, 10) then [0, in_offs) hold the   *)
(* ten newest records, oldest first; full is raised by the 10th add and    *)
(* never lowered.                                                          *)
C36_RingShape ==
  LET n == Len(added)
      cap == AESDCHAR_MAX_WRITE_OPERATIONS_SUPPORTED
  IN /\ buffer.in_offs \in Slots
     /\ buffer.out_offs \in Slots
     /\ buffer.full <=> (n >= cap)
     /\ ~buffer.full =>
          /\ buffer.out_offs = 0
          /\ buffer.in_offs = n
          /\ \A i \in Slots :
               buffer.entry[i] = IF i < buffer.in_offs THEN MkEntry(added[i + 1])
                                                      ELSE EmptyEntry
     /\ buffer.full =>
          /\ buffer.in_offs = buffer.out_offs
          /\ \A k \in 1 .. cap :
               buffer.entry[(buffer.in_offs + k - 1) % cap].buffptr = added[n - cap + k]

C36_Witness ==
  /\ buffer.full
  /\ Len(added) = AESDCHAR_MAX_WRITE_OPERATIONS_SUPPORTED + 2
  /\ buffer.in_offs = 2
  /\ buffer.entry[1].buffptr = added[Len(added)]

====
